---- MODULE Spec2Model ----
(***************************************************************************)
(* Model of BVStructure (src/bv2.py): the buffered periodic image of a     *)
(* crystal structure, the voxel grid and the per-voxel BVSM / BVSE kernels.*)
(*                                                                         *)
(* Numbers.  The program works on floating-point reals; the model works on *)
(* exact integers:                                                         *)
(*   - lengths and coordinates are integers in a length unit of which      *)
(*     `unit` make one Angstrom (unit = 100: centi-Angstrom);              *)
(*   - a fractional coordinate x . V^-1 is kept as the numerator of the    *)
(*     exact fraction over the common positive denominator inverseVectors  *)
(*     .den, so that comparing two fractional coordinates is comparing two *)
(*     integers;                                                           *)
(*   - valences, energies, charges and penalty constants are fixed-point   *)
(*     numbers in thousandths; a distance is compared with a cutoff on the *)
(*     exact squares.                                                      *)
(* Floating-point rounding is not modelled.                                *)
(***************************************************************************)
EXTENDS Integers, Sequences, FiniteSets, TLC

VARIABLES
    unit,           \* length units per Angstrom (scale of the input numbers)
    conductor,      \* self.conductor
    params,         \* self.params: <<a, b, c, alpha, beta, gamma>>
    vectors,        \* self.vectors: the rows a, b, c
    sites,          \* self.sites: the core site table, in input order
    db,             \* contents of the external parameter database
    chargeList,     \* self.chargeList: effective charges, in thousandths
    rCutoff,        \* self.rCutoff
    bvParams,       \* self.bvParams: the parameter cache
    attrs,          \* names of the attributes assigned after construction
    bufferArea,     \* self.bufferArea
    reqVolStart,    \* self.reqVolStart
    reqVolEnd,      \* self.reqVolEnd
    reqFracStart,   \* self.reqFracStart (numerators)
    reqFracEnd,     \* self.reqFracEnd (numerators)
    bufferedSites,  \* self.bufferedSites: the buffered table, in row order
    resolution,     \* the resolution the last setup_voxels was called with
    voxelNumbers,   \* self.voxelNumbers
    map,            \* self.map
    out             \* results of the kernel applications on the probe voxel

vars == <<unit, conductor, params, vectors, sites, db, chargeList, rCutoff,
          bvParams,
          attrs, bufferArea, reqVolStart, reqVolEnd, reqFracStart,
          reqFracEnd, bufferedSites, resolution, voxelNumbers, map, out>>

structVars == <<unit, conductor, params, vectors, sites, db, chargeList>>
bufferVars == <<bufferArea, reqVolStart, reqVolEnd, reqFracStart, reqFracEnd>>
voxelVars == <<resolution, voxelNumbers>>

-----------------------------------------------------------------------------
(* Arithmetic helpers                                                      *)

Abs(x) == IF x < 0 THEN -x ELSE x

Max(x, y) == IF x < y THEN y ELSE x

\* math.floor(x / y) and math.ceil(x / y) for y > 0
Floor(x, y) == x \div y

Ceil(x, y) == -((-x) \div y)

RECURSIVE GCD(_, _)
GCD(x, y) == IF y = 0 THEN x ELSE GCD(y, x % y)

Dot(u, v) == u[1] * v[1] + u[2] * v[2] + u[3] * v[3]

Cross(u, v) == <<u[2] * v[3] - u[3] * v[2],
                 u[3] * v[1] - u[1] * v[3],
                 u[1] * v[2] - u[2] * v[1]>>

VecAdd(u, v) == <<u[1] + v[1], u[2] + v[2], u[3] + v[3]>>

VecSub(u, v) == <<u[1] - v[1], u[2] - v[2], u[3] - v[3]>>

-----------------------------------------------------------------------------
(* Geometry primitives                                                     *)

\* np.matmul(shift, self.vectors)
MatMulVectors(shift, V) ==
    <<shift[1] * V[1][1] + shift[2] * V[2][1] + shift[3] * V[3][1],
      shift[1] * V[1][2] + shift[2] * V[2][2] + shift[3] * V[3][2],
      shift[1] * V[1][3] + shift[2] * V[2][3] + shift[3] * V[3][3]>>

\* self.inverseVectors = np.linalg.inv(self.vectors), as the exact fraction
\* num / den: with g the common divisor of the entries and V = g * W, the
\* columns of W^-1 are the cross products of the rows of W over det(W).
CommonDivisor(V) ==
    GCD(GCD(GCD(Abs(V[1][1]), Abs(V[1][2])), GCD(Abs(V[1][3]), Abs(V[2][1]))),
        GCD(GCD(Abs(V[2][2]), Abs(V[2][3])),
            GCD(Abs(V[3][1]), GCD(Abs(V[3][2]), Abs(V[3][3])))))

inverseVectors(V) ==
    LET g == CommonDivisor(V)
        W == [i \in 1..3 |-> [j \in 1..3 |-> V[i][j] \div g]]
        det == Dot(W[1], Cross(W[2], W[3]))
        sgn == IF det < 0 THEN -1 ELSE 1
        c1 == Cross(W[2], W[3])
        c2 == Cross(W[3], W[1])
        c3 == Cross(W[1], W[2])
    IN  [num |-> <<<<sgn * c1[1], sgn * c2[1], sgn * c3[1]>>,
                   <<sgn * c1[2], sgn * c2[2], sgn * c3[2]>>,
                   <<sgn * c1[3], sgn * c2[3], sgn * c3[3]>>>>,
         den |-> sgn * g * det]

translate_coord(coord, shift, V) == VecAdd(coord, MatMulVectors(shift, V))

\* np.matmul(cartesian, self.inverseVectors), inv being inverseVectors: the
\* numerators over inv.den
frac_from_cart(cartesian, inv) == MatMulVectors(cartesian, inv.num)

inside_space(start, end, point) ==
    /\ \A i \in 1..3 : start[i] <= point[i]
    /\ \A i \in 1..3 : point[i] <= end[i]

-----------------------------------------------------------------------------
(* Input descriptions: what the loader hands to __init__                   *)

Ion(e, v) == [element |-> e, ox_state |-> v]

F == Ion("F", -1)
Pb == Ion("Pb", 2)
Li == Ion("Li", 1)
O == Ion("O", -2)
P == Ion("P", 5)
Ions == {F, Pb, Li, O, P}

\* one data line of the input: label, p1 label, ion, lp flag, coordinates
SiteRow(label, p1, ion, lp, coords) ==
    [Index |-> p1, label |-> label, ion |-> ion, ox_state |-> ion.ox_state,
     lp |-> lp, coords |-> coords]

\* the Cartesian position of the fractional position q / 4 in the cell V
AtQuarters(q, V) ==
    LET x == MatMulVectors(q, V) IN <<x[1] \div 4, x[2] \div 4, x[3] \div 4>>

Diag(a, b, c) == <<<<a, 0, 0>>, <<0, b, 0>>, <<0, 0, c>>>>

\* cells in centi-Angstrom: the cell vectors and the six cell parameters
Cells ==
    { [vectors |-> Diag(960, 960, 960), params |-> <<960, 960, 960, 90, 90, 90>>],
      [vectors |-> Diag(480, 480, 480), params |-> <<480, 480, 480, 90, 90, 90>>],
      [vectors |-> Diag(240, 240, 240), params |-> <<240, 240, 240, 90, 90, 90>>],
      [vectors |-> Diag(960, 480, 240), params |-> <<960, 480, 240, 90, 90, 90>>],
      [vectors |-> <<<<960, 0, 0>>, <<-360, 480, 0>>, <<0, 0, 960>>>>,
       params |-> <<960, 600, 960, 90, 90, 127>>],
      [vectors |-> <<<<720, 0, 0>>, <<960, 720, 0>>, <<0, 0, 960>>>>,
       params |-> <<720, 1200, 960, 90, 90, 37>>] }

\* a fluoride conductor with a lone-pair cation, and a lithium conductor
\* with an anion and a second cation; sh = 1 is the same structure with
\* every site moved by the cell vector a
FluorideSites(V, sh) ==
    << SiteRow("Pb1", "Pb1-0", Pb, TRUE, AtQuarters(<<4 * sh, 0, 0>>, V)),
       SiteRow("F1", "F1-0", F, FALSE, AtQuarters(<<1 + 4 * sh, 0, 0>>, V)) >>

LithiumSites(V, sh) ==
    << SiteRow("Li1", "Li1-0", Li, FALSE, AtQuarters(<<4 * sh, 0, 0>>, V)),
       SiteRow("O1", "O1-0", O, FALSE, AtQuarters(<<3 + 4 * sh, 2, 2>>, V)),
       SiteRow("P1", "P1-0", P, FALSE, AtQuarters(<<1 + 4 * sh, 1, 3>>, V)) >>

SmallInputs(shifts) ==
    { [unit |-> 100, conductor |-> F, params |-> c.params,
       vectors |-> c.vectors, sites |-> FluorideSites(c.vectors, sh)]
        : c \in Cells, sh \in shifts }
    \cup
    { [unit |-> 100, conductor |-> Li, params |-> c.params,
       vectors |-> c.vectors, sites |-> LithiumSites(c.vectors, sh)]
        : c \in Cells, sh \in shifts }

\* the simplified cubic beta-PbF2 of the tests, in units of 0.0001 Angstrom
PbF2Input ==
    LET V == Diag(59306, 59306, 59306)
    IN  [unit |-> 10000, conductor |-> F,
         params |-> <<59306, 59306, 59306, 90, 90, 90>>, vectors |-> V,
         sites |-> << SiteRow("Pb1", "Pb1-0", Pb, TRUE, AtQuarters(<<0, 0, 0>>, V)),
                      SiteRow("F1", "F1-0", F, FALSE, AtQuarters(<<2, 2, 0>>, V)),
                      SiteRow("F2", "F2-0", F, FALSE, AtQuarters(<<2, 0, 2>>, V)),
                      SiteRow("F3", "F3-0", F, FALSE, AtQuarters(<<0, 2, 2>>, V)) >>]

-----------------------------------------------------------------------------
(* Fixed-point numerics: thousandths                                       *)

\* math.sqrt, rounded down
RECURSIVE SqrtSearch(_, _, _)
SqrtSearch(n, lo, hi) ==
    IF lo >= hi THEN lo
    ELSE LET mid == (lo + hi + 1) \div 2
         IN  IF mid * mid <= n THEN SqrtSearch(n, mid, hi)
             ELSE SqrtSearch(n, lo, mid - 1)

ISqrt(n) == SqrtSearch(n, 0, 46340)

\* x / y rounded towards 0
Quot(x, y) == IF (x < 0) = (y < 0) THEN Abs(x) \div Abs(y)
              ELSE -(Abs(x) \div Abs(y))

\* math.exp on thousandths: the series up to the fifth power on
\* [-0.5, 0.5], and exp(x) = exp(x/2)^2 outside
ExpSeries(x) ==
    LET t2 == Quot(x * x, 2000)
        t3 == Quot(t2 * x, 3000)
        t4 == Quot(t3 * x, 4000)
        t5 == Quot(t4 * x, 5000)
    IN  1000 + x + t2 + t3 + t4 + t5

RECURSIVE Exp(_)
Exp(x) ==
    IF Abs(x) <= 500 THEN ExpSeries(x)
    ELSE LET h == Exp(Quot(x, 2)) IN Quot(h * h, 1000)

-----------------------------------------------------------------------------
(* The external parameter database                                         *)

None == [found |-> FALSE]

\* a parameter record: lengths in length units, ib in thousandths per
\* Angstrom, d0 in thousandths
ParamRecord(u, cutoff) ==
    [found |-> TRUE, r0 |-> (5 * u) \div 2, ib |-> 2000,
     has_cutoff |-> TRUE, r_cutoff |-> cutoff * u, d0 |-> 1000,
     rmin |-> (3 * u) \div 2, i1r |-> u, i2r |-> u]

\* the contents of the database, by kind: a record for every pair of
\* different ions with r_cutoff 6 or 10 Angstrom, or no record at all
DbKinds == {"six", "ten", "empty"}

Database(kind, u) ==
    [pair \in Ions \X Ions |->
        IF kind = "empty" \/ pair[1] = pair[2] THEN None
        ELSE ParamRecord(u, IF kind = "six" THEN 6 ELSE 10)]

\* self.db.get_bv_params(ion1, ion2, bvse)
get_bv_params(d, ion1, ion2) ==
    IF <<ion1, ion2>> \in DOMAIN d THEN d[<<ion1, ion2>>] ELSE None

\* self.db.get_period(ion)
get_period(ion) ==
    IF ion.element \in {"Li", "O", "F"} THEN 2
    ELSE IF ion.element = "P" THEN 3 ELSE 6

\* self.db.get_radius(ion): 1 Angstrom for every ion
get_radius(ion, u) == u

-----------------------------------------------------------------------------
(* Construction                                                            *)

\* f"{ion1}.{ion2}"
DictKey(ion1, ion2) == <<ion1, ion2>>

\* self.sites.drop_duplicates(subset=["label"])
drop_duplicates(rows) ==
    LET idx == {n \in 1..Len(rows) :
                    \A m \in 1..(n - 1) : rows[m].label # rows[n].label}
        Nth(k) == CHOOSE n \in idx : Cardinality({m \in idx : m < n}) = k - 1
    IN  [k \in 1..Cardinality(idx) |-> rows[Nth(k)]]

\* the loop of get_param_dict over the rows from n on: the dictionary and
\* the maximal cutoff found
RECURSIVE ParamLoop(_, _, _, _, _, _)
ParamLoop(rows, n, cond, d, dict, maxCutoff) ==
    IF n > Len(rows) THEN [bvParams |-> dict, maxCutoff |-> maxCutoff]
    ELSE LET ion == rows[n].ion
             dictKey == DictKey(cond, ion)
             found == get_bv_params(d, cond, ion)
         IN  IF ion = cond \/ dictKey \in DOMAIN dict \/ ~found.found
             THEN ParamLoop(rows, n + 1, cond, d, dict, maxCutoff)
             ELSE ParamLoop(rows, n + 1, cond, d,
                            [k \in DOMAIN dict \cup {dictKey} |->
                                IF k = dictKey THEN found ELSE dict[k]],
                            IF found.has_cutoff
                            THEN Max(maxCutoff, found.r_cutoff)
                            ELSE maxCutoff)

get_param_dict(rows, cond, d) ==
    ParamLoop(drop_duplicates(rows), 1, cond, d, <<>>, 0)

\* find_effective_charges without the scaling by the ratio of the sums:
\* V / sqrt(n) alone
find_effective_charges_unscaled(rows) == [ion \in {rows[n].ion : n \in {m \in 1..Len(rows) : rows[m].ox_state # 0}} |-> Quot(ion.ox_state * 1000000, ISqrt(get_period(ion) * 1000000))]

\* find_effective_charges, in thousandths: V / sqrt(n) scaled by the square
\* root of the ratio of the cation and anion sums of V * N / sqrt(n)
find_effective_charges(rows) ==
    LET ions == {rows[n].ion : n \in 1..Len(rows)}
        N(ion) == Cardinality({n \in 1..Len(rows) : rows[n].ion = ion})
        SqrtPeriod(ion) == ISqrt(get_period(ion) * 1000000)
        part(ion) == Quot(ion.ox_state * N(ion) * 1000000, SqrtPeriod(ion))
        RECURSIVE PartSum(_)
        PartSum(S) == IF S = {} THEN 0
                      ELSE LET ion == CHOOSE i \in S : TRUE
                           IN  part(ion) + PartSum(S \ {ion})
        anionSum == PartSum({i \in ions : i.ox_state < 0})
        cationSum == PartSum({i \in ions : i.ox_state > 0})
        Scaled(ion, top, bottom) ==
            Quot(Quot(ion.ox_state * 1000000, SqrtPeriod(ion))
                    * ISqrt(Quot(Abs(top) * 1000, Abs(bottom)) * 1000), 1000)
    IN  [ion \in {i \in ions : i.ox_state # 0} |->
            IF ion.ox_state < 0 THEN Scaled(ion, cationSum, anionSum)
            ELSE Scaled(ion, anionSum, cationSum)]

\* the voxels of a grid whose values the model keeps: the origin, its
\* neighbour along a, the centre of the face spanned by b and c, and the
\* last voxel
Probes(shape) ==
    IF shape = <<>> THEN {}
    ELSE { <<0, 0, 0>>, <<1, 0, 0>>,
           <<0, shape[2] \div 2, shape[3] \div 2>>,
           <<shape[1] - 1, shape[2] - 1, shape[3] - 1>> }

\* out: what the populate run that came last did, none after any other
\* operation
NoCall == [routine |-> "none"]

\* np.zeros(self.voxelNumbers), at the voxels kept
Zeros(shape) == [shape |-> shape, data |-> [v \in Probes(shape) |-> 0]]

Constructed(inp, kind) ==
    LET d == Database(kind, inp.unit)
        pd == get_param_dict(inp.sites, inp.conductor, d)
    IN  /\ unit = inp.unit
        /\ conductor = inp.conductor
        /\ params = inp.params
        /\ vectors = inp.vectors
        /\ sites = inp.sites
        /\ db = d
        /\ chargeList = find_effective_charges(inp.sites)
        /\ bvParams = pd.bvParams
        /\ rCutoff = pd.maxCutoff
        /\ attrs = {}
        /\ bufferArea = <<>>
        /\ reqVolStart = <<>>
        /\ reqVolEnd = <<>>
        /\ reqFracStart = <<>>
        /\ reqFracEnd = <<>>
        /\ bufferedSites = <<>>
        /\ resolution = 0
        /\ voxelNumbers = <<>>
        /\ map = Zeros(<<>>)
        /\ out = NoCall

\* the structures whose sites all lie in the core cell
Init == \E inp \in SmallInputs({0}) \cup {PbF2Input}, kind \in DbKinds :
            Constructed(inp, kind)

-----------------------------------------------------------------------------
(* Buffer builder                                                          *)

findCoreCell(x) == Floor(x, 2)

\* np.sum(self.vectors, axis=0)
SumVectors(V) == MatMulVectors(<<1, 1, 1>>, V)

\* the comparison of define_buffer_area turned round
buffer_area_reversed(p, rC) == [i \in 1..3 |-> IF p[i] > rC THEN 3 + 2 ELSE 3]

buffer_area(p, rC) == [i \in 1..3 |-> IF p[i] < rC THEN 3 + 2 ELSE 3]

DefineBufferArea ==
    /\ bufferArea' = buffer_area(params, rCutoff)
    /\ reqVolStart' = <<-rCutoff, -rCutoff, -rCutoff>>
    /\ reqFracStart' = frac_from_cart(reqVolStart', inverseVectors(vectors))
    /\ reqVolEnd' = VecAdd(SumVectors(vectors), <<rCutoff, rCutoff, rCutoff>>)
    /\ reqFracEnd' = frac_from_cart(reqVolEnd', inverseVectors(vectors))
    /\ attrs' = attrs \cup {"bufferArea"}
    /\ UNCHANGED <<structVars, rCutoff, bvParams, bufferedSites, voxelVars,
                   map>>
    /\ out' = NoCall

\* range(- math.floor(B/2), math.ceil(B/2))
FirstShift(B) == -Floor(B, 2)

ShiftCount(B) == Ceil(B, 2) - FirstShift(B)

\* f"{site.Index}({h}{k}{l})", with the prefix "lp" of a dummy site
BufferIndex(prefix, p1, hkl) == [prefix |-> prefix, p1 |-> p1, hkl |-> hkl]

\* the t-th pass (from 0) of the innermost loop body of find_buffer_sites:
\* the site and the translation (h, k, l) it handles
LoopSite(t, B) ==
    (t \div (ShiftCount(B[1]) * ShiftCount(B[2]) * ShiftCount(B[3]))) + 1

LoopShift(t, B) ==
    << FirstShift(B[1]) +
          ((t \div (ShiftCount(B[2]) * ShiftCount(B[3]))) % ShiftCount(B[1])),
       FirstShift(B[2]) + ((t \div ShiftCount(B[3])) % ShiftCount(B[2])),
       FirstShift(B[3]) + (t % ShiftCount(B[3])) >>

BufferRow(site, hkl, V) ==
    [Index |-> BufferIndex("", site.Index, hkl), label |-> site.label,
     ion |-> site.ion, ox_state |-> site.ox_state, lp |-> site.lp,
     coords |-> translate_coord(site.coords, hkl, V)]

\* find_buffer_sites keeping every pass, inside the required volume or not
find_buffer_sites_unfiltered(rows, V, B, fracStart, fracEnd) ==
    [t \in 1..(Len(rows) * ShiftCount(B[1]) * ShiftCount(B[2])
                   * ShiftCount(B[3])) |->
        BufferRow(rows[LoopSite(t - 1, B)], LoopShift(t - 1, B), V)]

\* the table find_buffer_sites builds: the passes in loop order, those
\* kept whose fractional position is inside the required volume
find_buffer_sites(rows, V, B, fracStart, fracEnd) ==
    LET passes == Len(rows) * ShiftCount(B[1]) * ShiftCount(B[2])
                      * ShiftCount(B[3])
        all == [t \in 1..passes |->
                   BufferRow(rows[LoopSite(t - 1, B)], LoopShift(t - 1, B), V)]
        inv == inverseVectors(V)
        Kept(row) == inside_space(fracStart, fracEnd,
                                  frac_from_cart(row.coords, inv))
    IN  SelectSeq(all, Kept)

FindBufferSites ==
    /\ "bufferArea" \in attrs
    /\ bufferedSites' = find_buffer_sites(sites, vectors, bufferArea,
                                          reqFracStart, reqFracEnd)
    /\ attrs' = attrs \cup {"bufferedSites"}
    /\ UNCHANGED <<structVars, rCutoff, bvParams, bufferVars, voxelVars,
                   map>>
    /\ out' = NoCall

-----------------------------------------------------------------------------
(* Voxel grid                                                              *)

\* the rounding of setup_voxels without its "+ 1"
voxel_number_floor(length, res) ==
    LET minimumVoxel == Ceil(length, res)
    IN  Floor(minimumVoxel, 12) * 12

voxel_number(length, res) ==
    LET minimumVoxel == Ceil(length, res)
    IN  (Floor(minimumVoxel, 12) + 1) * 12

setup_voxels(p, res) == [i \in 1..3 |-> voxel_number(p[i], res)]

\* the resolutions asked for: 0.1, 0.25, 0.5, 1 and 2 Angstrom
Resolutions(u) == {u \div 10, u \div 4, u \div 2, u, 2 * u}

SetupVoxels(res) ==
    /\ resolution' = res
    /\ voxelNumbers' = setup_voxels(params, res)
    /\ map' = Zeros(voxelNumbers')
    /\ attrs' = attrs \cup {"voxelNumbers"}
    /\ UNCHANGED <<structVars, rCutoff, bvParams, bufferVars, bufferedSites>>
    /\ out' = NoCall

\* initalise_map whose find_buffer_sites writes into the table it finds,
\* so that the rows of the dummies stay
InitaliseMapKeeping(res) ==
    /\ bufferArea' = buffer_area(params, rCutoff)
    /\ reqVolStart' = <<-rCutoff, -rCutoff, -rCutoff>>
    /\ reqFracStart' = frac_from_cart(reqVolStart', inverseVectors(vectors))
    /\ reqVolEnd' = VecAdd(SumVectors(vectors), <<rCutoff, rCutoff, rCutoff>>)
    /\ reqFracEnd' = frac_from_cart(reqVolEnd', inverseVectors(vectors))
    /\ bufferedSites' = find_buffer_sites(sites, vectors, bufferArea',
                                          reqFracStart', reqFracEnd')
                            \o SelectSeq(bufferedSites,
                                         LAMBDA row : row.ion.element = "LP")
    /\ resolution' = res
    /\ voxelNumbers' = setup_voxels(params, res)
    /\ map' = Zeros(voxelNumbers')
    /\ attrs' = attrs \cup {"bufferArea", "bufferedSites", "voxelNumbers"}
    /\ UNCHANGED <<structVars, rCutoff, bvParams>>
    /\ out' = NoCall

InitaliseMap(res) ==
    /\ bufferArea' = buffer_area(params, rCutoff)
    /\ reqVolStart' = <<-rCutoff, -rCutoff, -rCutoff>>
    /\ reqFracStart' = frac_from_cart(reqVolStart', inverseVectors(vectors))
    /\ reqVolEnd' = VecAdd(SumVectors(vectors), <<rCutoff, rCutoff, rCutoff>>)
    /\ reqFracEnd' = frac_from_cart(reqVolEnd', inverseVectors(vectors))
    /\ bufferedSites' = find_buffer_sites(sites, vectors, bufferArea',
                                          reqFracStart', reqFracEnd')
    /\ resolution' = res
    /\ voxelNumbers' = setup_voxels(params, res)
    /\ map' = Zeros(voxelNumbers')
    /\ attrs' = attrs \cup {"bufferArea", "bufferedSites", "voxelNumbers"}
    /\ UNCHANGED <<structVars, rCutoff, bvParams>>
    /\ out' = NoCall

ResetMap ==
    /\ "voxelNumbers" \in attrs
    /\ map' = Zeros(voxelNumbers)
    /\ UNCHANGED <<structVars, rCutoff, bvParams, attrs, bufferVars,
                   bufferedSites, voxelVars>>
    /\ out' = NoCall

Next ==
    \/ DefineBufferArea
    \/ FindBufferSites
    \/ \E res \in Resolutions(unit) : SetupVoxels(res)
    \/ \E res \in Resolutions(unit) : InitaliseMap(res)
    \/ ResetMap

Spec == Init /\ [][Next]_vars

-----------------------------------------------------------------------------
(* Parameter cache                                                         *)

\* get_bv_param that looks only under the key of the order asked for
get_bv_param_one_order(cache, d, ion1, ion2) ==
    IF DictKey(ion1, ion2) \in DOMAIN cache
    THEN [params |-> cache[DictKey(ion1, ion2)], bvParams |-> cache]
    ELSE [params |-> get_bv_params(d, ion1, ion2),
          bvParams |-> [k \in DOMAIN cache \cup {DictKey(ion1, ion2)} |->
                           IF k = DictKey(ion1, ion2)
                           THEN get_bv_params(d, ion1, ion2) ELSE cache[k]]]

\* get_bv_param: the record returned and the cache afterwards
get_bv_param(cache, d, ion1, ion2) ==
    IF DictKey(ion1, ion2) \in DOMAIN cache
    THEN [params |-> cache[DictKey(ion1, ion2)], bvParams |-> cache]
    ELSE IF DictKey(ion2, ion1) \in DOMAIN cache
    THEN [params |-> cache[DictKey(ion2, ion1)], bvParams |-> cache]
    ELSE LET found == get_bv_params(d, ion1, ion2)
         IN  [params |-> found,
              bvParams |-> [k \in DOMAIN cache \cup {DictKey(ion1, ion2)} |->
                               IF k = DictKey(ion1, ion2) THEN found
                               ELSE cache[k]]]

conductor_bv_param(cache, d, cond, ion) == get_bv_param(cache, d, cond, ion)

\* a call of get_bv_param from outside: the cache afterwards and, in out,
\* the pair asked for and the record returned
GetBvParam(ion1, ion2) ==
    /\ bvParams' = get_bv_param(bvParams, db, ion1, ion2).bvParams
    /\ out' = [routine |-> "get_bv_param", ion1 |-> ion1, ion2 |-> ion2,
               params |-> get_bv_param(bvParams, db, ion1, ion2).params]
    /\ UNCHANGED <<structVars, rCutoff, attrs, bufferVars, bufferedSites,
                   voxelVars, map>>

\* the ions of the structure
StructureIons == {conductor} \cup {sites[n].ion : n \in 1..Len(sites)}

InitCache == \E inp \in SmallInputs({0}), kind \in DbKinds :
                 Constructed(inp, kind)

NextCache == \E ion1 \in StructureIons, ion2 \in StructureIons :
                 GetBvParam(ion1, ion2)

CacheSpec == InitCache /\ [][NextCache]_vars

-----------------------------------------------------------------------------
(* Lone-pair synthesizer                                                   *)

LONE_PAIR_STRENGTH_CUTOFF == 500
LONE_PAIR_RADIUS == 1
LONE_PAIR_CHARGE == -2

LonePairIon == Ion("LP", -2)

\* a distance is kept as its exact square, in squared length units
\* calc_vector_distance: the largest component when it exceeds the cutoff
calc_vector_distance(vector, rC) ==
    LET m == Max(vector[1], Max(vector[2], vector[3]))
    IN  IF m > rC THEN m * m ELSE Dot(vector, vector)

\* calc_bv: exp((r0 - ri) * ib), ri the distance in length units
calc_bv(r0, ri, ib, u) == Exp(Quot((r0 - ri) * ib, u))

\* calc_vector_bv: calc_bv * vector / ri
calc_vector_bv(r0, ri, ib, vector, u) ==
    [i \in 1..3 |-> Quot(calc_bv(r0, ri, ib, u) * vector[i], ri)]

\* the loop of find_site_bvs (vector = True) over the selected rows, told
\* by row so that a long table needs no deep recursion: what the row does
\* to the loop ...
RowEvent(row, target, cache, d, rC, u) ==
    LET r2 == calc_vector_distance(VecSub(target.coords, row.coords), rC)
    IN  IF r2 < u * u THEN "collision"
        ELSE IF r2 > rC * rC THEN "skip"
        ELSE IF get_bv_param(cache, d, row.ion, target.ion).params.found
        THEN "add" ELSE "raise"

\* ... the term it adds ...
RowTerm(row, target, cache, d, rC, u) ==
    LET vector == VecSub(target.coords, row.coords)
        got == get_bv_param(cache, d, row.ion, target.ion)
    IN  calc_vector_bv(got.params.r0,
                       ISqrt(calc_vector_distance(vector, rC)),
                       got.params.ib, vector, u)

\* ... and the sum of the terms of rows lo..hi
RECURSIVE SumTerms(_, _, _, _, _, _, _, _)
SumTerms(rows, lo, hi, target, cache, d, rC, u) ==
    IF lo > hi THEN <<0, 0, 0>>
    ELSE IF lo = hi
    THEN IF RowEvent(rows[lo], target, cache, d, rC, u) = "add"
         THEN RowTerm(rows[lo], target, cache, d, rC, u)
         ELSE <<0, 0, 0>>
    ELSE VecAdd(SumTerms(rows, lo, (lo + hi) \div 2, target, cache, d, rC, u),
                SumTerms(rows, (lo + hi) \div 2 + 1, hi, target, cache, d,
                         rC, u))

\* the loop ends at the first row that collides (the sum becomes the scalar
\* 100) or whose parameter record is missing (the call raises); every row
\* looked up before that is in the cache afterwards
BvsLoop(rows, target, cache, d, rC, u) ==
    LET Ends(n) == RowEvent(rows[n], target, cache, d, rC, u)
                      \in {"collision", "raise"}
        last == IF \E n \in 1..Len(rows) : Ends(n)
                THEN CHOOSE n \in 1..Len(rows) :
                        Ends(n) /\ \A m \in 1..(n - 1) : ~Ends(m)
                ELSE Len(rows) + 1
        looked == {n \in 1..Len(rows) :
                      /\ n <= last
                      /\ RowEvent(rows[n], target, cache, d, rC, u)
                            \in {"add", "raise"}}
        keys == {DictKey(rows[n].ion, target.ion) : n \in looked}
        missing == {k \in keys :
                       /\ k \notin DOMAIN cache
                       /\ <<k[2], k[1]>> \notin DOMAIN cache}
        event == IF last <= Len(rows)
                 THEN RowEvent(rows[last], target, cache, d, rC, u)
                 ELSE "end"
    IN  [vbvSum |-> IF event = "collision" THEN <<100000>>
                    ELSE SumTerms(rows, 1, last - 1, target, cache, d, rC, u),
         scalar |-> event = "collision",
         raised |-> event = "raise",
         bvParams |-> [k \in DOMAIN cache \cup missing |->
                          IF k \in DOMAIN cache THEN cache[k]
                          ELSE get_bv_params(d, k[1], k[2])]]

find_site_bvs(target, buffered, cache, d, rC, u) ==
    LET Selected(row) == row.ox_state * target.ion.ox_state < 0
    IN  BvsLoop(SelectSeq(buffered, Selected), target, cache, d, rC, u)

\* np.linalg.norm(vbvs) > LONE_PAIR_STRENGTH_CUTOFF, on the squares
lone_pair_active(bvs) ==
    IF bvs.scalar THEN bvs.vbvSum[1] > LONE_PAIR_STRENGTH_CUTOFF
    ELSE Dot(bvs.vbvSum, bvs.vbvSum)
            > LONE_PAIR_STRENGTH_CUTOFF * LONE_PAIR_STRENGTH_CUTOFF

\* vbvs / magVbvs, in thousandths; after a collision the scalar 1.0, which
\* numpy adds to every coordinate
lpNormVec(bvs) ==
    IF bvs.scalar THEN <<1000, 1000, 1000>>
    ELSE LET magVbvs == ISqrt(Dot(bvs.vbvSum, bvs.vbvSum))
         IN  [i \in 1..3 |-> Quot(bvs.vbvSum[i] * 1000, magVbvs)]

\* the first loop of create_lone_pairs over the lp-flagged core sites from
\* n on: lpSiteDict, the cache, and whether find_site_bvs raised
RECURSIVE LpSiteLoop(_, _, _, _, _, _, _, _)
LpSiteLoop(rows, n, buffered, cache, dict, d, rC, u) ==
    IF n > Len(rows)
    THEN [lpSiteDict |-> dict, raised |-> FALSE, bvParams |-> cache]
    ELSE LET bvs == find_site_bvs(rows[n], buffered, cache, d, rC, u)
         IN  IF bvs.raised
             THEN [lpSiteDict |-> dict, raised |-> TRUE,
                   bvParams |-> bvs.bvParams]
             ELSE LpSiteLoop(rows, n + 1, buffered, bvs.bvParams,
                             IF lone_pair_active(bvs)
                             THEN [k \in DOMAIN dict \cup {rows[n].Index} |->
                                      IF k = rows[n].Index THEN lpNormVec(bvs)
                                      ELSE dict[k]]
                             ELSE dict,
                             d, rC, u)

LonePairRow(site, normVec, distance) ==
    [Index |-> BufferIndex("lp", site.Index.p1, site.Index.hkl),
     label |-> "lp" \o site.label, ion |-> LonePairIon, ox_state |-> -2,
     lp |-> FALSE,
     coords |-> [i \in 1..3 |->
                    site.coords[i] + Quot(normVec[i] * distance, 1000)]]

\* the second loop of create_lone_pairs over the lp-flagged rows of the
\* buffered table as it was when the loop started: each dummy row replaces
\* the row of its index or is appended, in the order of the loop
LpRowLoop(rows, table, dict, distance) ==
    LET Hosted(row) == row.Index.p1 \in DOMAIN dict
        hosts == SelectSeq(rows, Hosted)
        dummies == [n \in 1..Len(hosts) |->
                       LonePairRow(hosts[n], dict[hosts[n].Index.p1],
                                   distance)]
        Dummy(index) == dummies[CHOOSE n \in 1..Len(dummies) :
                                    dummies[n].Index = index]
        Old(row) == \E n \in 1..Len(table) : table[n].Index = row.Index
        New(row) == ~Old(row)
    IN  [n \in 1..Len(table) |->
            IF \E m \in 1..Len(dummies) : dummies[m].Index = table[n].Index
            THEN Dummy(table[n].Index) ELSE table[n]]
        \o SelectSeq(dummies, New)

IsLp(row) == row.lp

\* create_lone_pairs that writes its dummy rows to the core site table
CreateLonePairsInCore(distance) ==
    /\ "bufferedSites" \in attrs
    /\ \E first \in {LpSiteLoop(SelectSeq(sites, IsLp), 1, bufferedSites,
                                 bvParams, <<>>, db, rCutoff, unit)} :
          /\ bvParams' = first.bvParams
          /\ sites' = sites \o
                [n \in 1..Len(SelectSeq(bufferedSites, IsLp)) |->
                    LonePairRow(SelectSeq(bufferedSites, IsLp)[n],
                                <<1000, 0, 0>>, distance)]
    /\ UNCHANGED <<unit, conductor, params, vectors, db, chargeList, rCutoff,
                   attrs, bufferVars, bufferedSites, voxelVars, map>>
    /\ out' = NoCall

\* distance is in length units
CreateLonePairs(distance) ==
    /\ "bufferedSites" \in attrs
    /\ LET first == LpSiteLoop(SelectSeq(sites, IsLp), 1, bufferedSites,
                               bvParams, <<>>, db, rCutoff, unit)
       IN  /\ bvParams' = first.bvParams
           /\ bufferedSites' =
                 IF first.raised THEN bufferedSites
                 ELSE LpRowLoop(SelectSeq(bufferedSites, IsLp),
                                bufferedSites, first.lpSiteDict, distance)
    /\ UNCHANGED <<structVars, rCutoff, attrs, bufferVars, voxelVars, map>>
    /\ out' = NoCall

\* the distances asked for: 1 and 2 Angstrom
LonePairDistances(u) == {u, 2 * u}

\* the structures of the lone-pair and kernel specifications: centi-Angstrom
InitSmall == \E inp \in SmallInputs({0, 1}), kind \in DbKinds :
                 Constructed(inp, kind)

NextLonePairs ==
    \/ \E res \in {unit} : InitaliseMap(res)
    \/ \E distance \in LonePairDistances(unit) : CreateLonePairs(distance)

LonePairSpec == InitSmall /\ [][NextLonePairs]_vars

-----------------------------------------------------------------------------
(* Site arrays of the compiled kernels                                     *)

SCREENING_FACTOR == 750

\* sum of a sequence of numbers, by halves
RECURSIVE SumRange(_, _, _)
SumRange(terms, lo, hi) ==
    IF lo > hi THEN 0
    ELSE IF lo = hi THEN terms[lo]
    ELSE SumRange(terms, lo, (lo + hi) \div 2)
            + SumRange(terms, (lo + hi) \div 2 + 1, hi)

SumSeq(terms) == SumRange(terms, 1, Len(terms))

\* self.bufferedSites[self.bufferedSites["ion"] != self.conductor]
selectedSites(buffered, cond) ==
    LET NotConductor(row) == row.ion # cond IN SelectSeq(buffered, NotConductor)

Attractive(rows, cond) ==
    LET Opposite(row) == row.ox_state * cond.ox_state < 0
    IN  SelectSeq(rows, Opposite)

Repulsive(rows, cond) ==
    LET Same(row) == row.ox_state * cond.ox_state > 0
    IN  SelectSeq(rows, Same)

\* the record conductor_bv_param returns for an ion
ParamOf(cache, d, cond, ion) == conductor_bv_param(cache, d, cond, ion).params

\* the cache after get_bv_param has been called for the keys
CacheWith(cache, d, keys) ==
    [k \in DOMAIN cache
           \cup {j \in keys : /\ j \notin DOMAIN cache
                              /\ <<j[2], j[1]>> \notin DOMAIN cache} |->
        IF k \in DOMAIN cache THEN cache[k] ELSE get_bv_params(d, k[1], k[2])]

\* the first row whose record is missing, the last row if none is
LastLookup(records) ==
    IF \E n \in 1..Len(records) : ~records[n].found
    THEN CHOOSE n \in 1..Len(records) :
            ~records[n].found /\ \A m \in 1..(n - 1) : records[m].found
    ELSE Len(records)

LookupRecords(rows, records, cache, d, cond) ==
    [raised |-> \E n \in 1..Len(records) : ~records[n].found,
     params |-> records,
     bvParams |-> CacheWith(cache, d,
                            {DictKey(cond, rows[n].ion) :
                                n \in 1..LastLookup(records)})]

\* conductor_bv_param for the rows in turn, up to the first row whose record
\* is missing (reading a field of None raises): the records, the cache
\* afterwards, and whether it raised
LookupRows(rows, cache, d, cond) ==
    LookupRecords(rows,
                  [n \in 1..Len(rows) |-> ParamOf(cache, d, cond, rows[n].ion)],
                  cache, d, cond)

\* np.array(outList), or np.array([[]]) - one row without columns - when
\* outList is empty
NpArray(outList) == IF outList = <<>> THEN << <<>> >> ELSE outList

BvArray(rows, look) ==
    [raised |-> look.raised, bvParams |-> look.bvParams,
     array |-> IF look.raised THEN <<>>
               ELSE NpArray([n \in 1..Len(rows) |->
                        rows[n].coords
                           \o <<look.params[n].ib, look.params[n].r0>>])]

\* rows [x, y, z, ib, r0]
create_bv_array(selected, cache, d, cond) ==
    BvArray(Attractive(selected, cond),
            LookupRows(Attractive(selected, cond), cache, d, cond))

PenaltyArray(rows, penalty) ==
    NpArray([n \in 1..Len(rows) |->
                rows[n].coords \o <<LONE_PAIR_CHARGE, penalty>>])

\* rows [x, y, z, LONE_PAIR_CHARGE, penalty]
create_bv_penalty_array(selected, penalty, cond) ==
    PenaltyArray(Repulsive(selected, cond), penalty)

BondArray(rows, look) ==
    [raised |-> look.raised, bvParams |-> look.bvParams,
     array |-> IF look.raised THEN <<>>
               ELSE NpArray([n \in 1..Len(rows) |->
                        rows[n].coords
                           \o <<look.params[n].d0, look.params[n].rmin,
                                look.params[n].ib>>])]

\* rows [x, y, z, d0, rmin, ib]
create_bond_site_array(selected, cache, d, cond) ==
    BondArray(Attractive(selected, cond),
              LookupRows(Attractive(selected, cond), cache, d, cond))

NotDummy(row) == row.ion.element # "LP"

\* one row [x, y, z, q1, q2, r1, r2], charges in thousandths
CoulRow(row, record, effectiveCharge, cond, charges, u) ==
    row.coords \o
    (IF NotDummy(row)
     THEN <<IF effectiveCharge THEN charges[cond]
            ELSE row.ion.ox_state * 1000,
            IF effectiveCharge THEN charges[row.ion]
            ELSE cond.ox_state * 1000,
            record.i1r, record.i2r>>
     ELSE <<IF effectiveCharge THEN charges[cond] ELSE cond.ox_state * 1000,
            LONE_PAIR_CHARGE * 1000, get_radius(cond, u),
            LONE_PAIR_RADIUS * u>>)

\* chargeList has no entry for the conductor or for the ion of the row
NoCharge(row, cond, charges) ==
    \/ cond \notin DOMAIN charges
    \/ NotDummy(row) /\ row.ion \notin DOMAIN charges

CoulArray(rows, records, look, raised, effectiveCharge, cond, charges, u) ==
    [raised |-> raised, bvParams |-> look.bvParams,
     array |-> IF raised THEN <<>>
               ELSE NpArray([n \in 1..Len(rows) |->
                        CoulRow(rows[n], records[n], effectiveCharge, cond,
                                charges, u)])]

CoulArrayOf(rows, effectiveCharge, cache, d, cond, charges, u) ==
    CoulArray(rows,
              [n \in 1..Len(rows) |->
                  IF NotDummy(rows[n])
                  THEN ParamOf(cache, d, cond, rows[n].ion) ELSE None],
              LookupRows(SelectSeq(rows, NotDummy), cache, d, cond),
              \/ LookupRows(SelectSeq(rows, NotDummy), cache, d, cond).raised
              \/ effectiveCharge
                    /\ \E n \in 1..Len(rows) : NoCharge(rows[n], cond, charges),
              effectiveCharge, cond, charges, u)

\* rows [x, y, z, q1, q2, r1, r2]; only the rows that are not dummies look
\* a record up, and the effective charge of an ion without one raises
create_coul_site_array(selected, effectiveCharge, cache, d, cond, charges, u) ==
    CoulArrayOf(Repulsive(selected, cond), effectiveCharge, cache, d, cond,
                charges, u)

\* what a read of the row without columns can give: seven numbers that
\* happen to lie behind the array, here a site far from every voxel or a
\* site half an Angstrom from the origin, with every other field 1
Garbage(u) ==
    { <<40 * u, 40 * u, 40 * u, u, u, u, u>>,
      <<u \div 2, u \div 2, u \div 2, u, u, u, u>> }

\* the garbage a call can meet: none when the array has columns
GarbageOf(array, u) == IF array = << <<>> >> THEN Garbage(u) ELSE {<<>>}

\* ion = array[i]
ReadRow(array, i, garbage) == IF array[i] = <<>> THEN garbage ELSE array[i]

\* the rows a kernel reads from an array
ReadRows(array, garbage) ==
    [i \in 1..Len(array) |-> ReadRow(array, i, garbage)]

-----------------------------------------------------------------------------
(* Kernels: values in thousandths, distances as exact squares              *)

\* np.sum((voxelId / voxelNos).reshape(3,1) * vectors, axis=0); exact for
\* the cells and resolutions of the kernel specification
calc_voxel_cartesian(voxelId, voxelNos, V) ==
    [j \in 1..3 |-> (voxelId[1] * V[1][j]) \div voxelNos[1]
                  + (voxelId[2] * V[2][j]) \div voxelNos[2]
                  + (voxelId[3] * V[3][j]) \div voxelNos[3]]

\* calc_distance that returns the largest of the axis distances beyond the
\* cutoff, not the first
calc_distance_largest_axis(point1, point2, cutoff) == IF \E j \in 1..3 : Abs(point2[j] - point1[j]) > cutoff THEN Max(Max(Abs(point2[1] - point1[1]), Abs(point2[2] - point1[2])), Abs(point2[3] - point1[3])) * Max(Max(Abs(point2[1] - point1[1]), Abs(point2[2] - point1[2])), Abs(point2[3] - point1[3])) ELSE (point2[1] - point1[1]) * (point2[1] - point1[1]) + (point2[2] - point1[2]) * (point2[2] - point1[2]) + (point2[3] - point1[3]) * (point2[3] - point1[3])

\* calc_distance that returns the smallest of the axis distances, not the
\* first beyond the cutoff, when an axis distance exceeds it
calc_distance_smallest_axis(point1, point2, cutoff) == IF \E j \in 1..3 : Abs(point2[j] - point1[j]) > cutoff THEN (CHOOSE m \in {Abs(point2[j] - point1[j]) : j \in 1..3} : \A j \in 1..3 : m <= Abs(point2[j] - point1[j])) * (CHOOSE m \in {Abs(point2[j] - point1[j]) : j \in 1..3} : \A j \in 1..3 : m <= Abs(point2[j] - point1[j])) ELSE (point2[1] - point1[1]) * (point2[1] - point1[1]) + (point2[2] - point1[2]) * (point2[2] - point1[2]) + (point2[3] - point1[3]) * (point2[3] - point1[3])

\* calc_distance: the square of what it returns
calc_distance(point1, point2, cutoff) ==
    LET deltaX == Abs(point2[1] - point1[1])
        deltaY == Abs(point2[2] - point1[2])
        deltaZ == Abs(point2[3] - point1[3])
    IN  IF deltaX > cutoff THEN deltaX * deltaX
        ELSE IF deltaY > cutoff THEN deltaY * deltaY
        ELSE IF deltaZ > cutoff THEN deltaZ * deltaZ
        ELSE deltaX * deltaX + deltaY * deltaY + deltaZ * deltaZ

\* calc_penalty: penaltyK * (q1 * q2) * (1 / ri^2 - 1 / rCutoff^2)
calc_penalty(r2, q1, q2, penaltyK, cutoff, u) ==
    Quot(penaltyK * q1 * q2 * u * u, r2)
        - Quot(penaltyK * q1 * q2 * u * u, cutoff * cutoff)

\* _linear_penalty and _quadratic_penalty of the structure
linear_penalty(os, charge, r2, penaltyK, cutoff, u) ==
    Quot(penaltyK * os * charge * u, ISqrt(r2))
        - Quot(penaltyK * os * charge * u, cutoff)

quadratic_penalty(os, charge, r2, penaltyK, cutoff, u) ==
    calc_penalty(r2, os, charge, penaltyK, cutoff, u)

\* calc_Ebond: d0 * (exp((rmin - ri) * ib) - 1)^2 - d0
calc_Ebond(d0, rmin, ri, ib, u) ==
    LET e == Exp(Quot((rmin - ri) * ib, u)) - 1000
    IN  Quot(d0 * Quot(e * e, 1000), 1000) - d0

\* math.erfc for x >= 0, by the five-term rational approximation
Erfc(x) ==
    LET t == Quot(1000000, 1000 + Quot(328 * x, 1000))
        p5 == 1061
        p4 == Quot(t * p5, 1000) - 1453
        p3 == Quot(t * p4, 1000) + 1421
        p2 == Quot(t * p3, 1000) - 284
        p1 == Quot(t * p2, 1000) + 255
    IN  Quot(Quot(t * p1, 1000) * Exp(-Quot(x * x, 1000)), 1000)

\* calc_Ecoul: (q1 * q2) / ri * erfc(ri / (f * (r1 + r2)))
calc_Ecoul(q1, q2, ri, r1, r2, f, u) ==
    Quot(Quot(Quot(q1 * q2, 1000)
                 * Erfc(Quot(ri * 1000, Quot(f * (r1 + r2), 1000))), 1000) * u,
         ri)

\* one pass of the bond-valence loop of voxel_bvsm
BvTerm(position, ion, cutoff, u) ==
    LET r2 == calc_distance(position, SubSeq(ion, 1, 3), cutoff)
    IN  IF r2 > cutoff * cutoff THEN 0
        ELSE calc_bv(ion[5], ISqrt(r2), ion[4], u)

\* one pass of the penalty loop: the term, or a division by zero
PenTerm(position, ion, cutoff, conductorOs, u) ==
    LET r2 == calc_distance(position, SubSeq(ion, 1, 3), cutoff)
    IN  IF r2 > cutoff * cutoff THEN [divides |-> FALSE, term |-> 0]
        ELSE IF r2 = 0 \/ cutoff = 0 THEN [divides |-> TRUE, term |-> 0]
        ELSE [divides |-> FALSE,
              term |-> calc_penalty(r2, conductorOs, ion[4], ion[5], cutoff,
                                    u)]

\* return abs(bvs - abs(conductorOs)) + penaltySum
BvsmReturn(raised, bvs, penaltySum, conductorOs) ==
    [raised |-> raised, bvs |-> bvs, penaltySum |-> penaltySum,
     value |-> Abs(bvs - Abs(conductorOs) * 1000) + penaltySum]

BvsmSums(mode, conductorOs, bvTerms, penTerms) ==
    BvsmReturn(\E i \in 1..Len(penTerms) : penTerms[i].divides,
               IF mode < 2 THEN SumSeq(bvTerms)
               ELSE Abs(conductorOs) * 1000,
               IF \E i \in 1..Len(penTerms) : penTerms[i].divides THEN 0
               ELSE SumSeq([i \in 1..Len(penTerms) |-> penTerms[i].term]),
               conductorOs)

BvsmAt(position, cutoff, conductorOs, mode, bvRows, penRows, u) ==
    BvsmSums(mode, conductorOs,
             IF mode < 2
             THEN [i \in 1..Len(bvRows) |->
                      BvTerm(position, bvRows[i], cutoff, u)]
             ELSE <<>>,
             IF mode > 0
             THEN [i \in 1..Len(penRows) |->
                      PenTerm(position, penRows[i], cutoff, conductorOs, u)]
             ELSE <<>>)

\* voxel_bvsm: the locals bvs and penaltySum, the value returned, and
\* whether a division by zero raised
voxel_bvsm(voxelId, voxelNos, V, cutoff, conductorOs, mode, bvIons, penIons, bvGarbage, penGarbage, u) ==
    BvsmAt(calc_voxel_cartesian(voxelId, voxelNos, V), cutoff, conductorOs,
           mode, ReadRows(bvIons, bvGarbage), ReadRows(penIons, penGarbage), u)

\* one pass of the bond loop of voxel_bvse
BondTerm(position, ion, cutoff, u) ==
    LET r2 == calc_distance(position, SubSeq(ion, 1, 3), cutoff * 2)
    IN  IF r2 > cutoff * cutoff THEN 0
        ELSE calc_Ebond(ion[4], ion[5], ISqrt(r2), ion[6], u)

\* one pass of the Coulomb loop: the term, or a division by zero
CoulTerm(position, ion, cutoff, screeningFactor, u) ==
    LET r2 == calc_distance(position, SubSeq(ion, 1, 3), cutoff * 2)
    IN  IF r2 > cutoff * cutoff THEN [divides |-> FALSE, term |-> 0]
        ELSE IF r2 = 0 \/ Quot(screeningFactor * (ion[6] + ion[7]), 1000) = 0
        THEN [divides |-> TRUE, term |-> 0]
        ELSE [divides |-> FALSE,
              term |-> calc_Ecoul(ion[4], ion[5], ISqrt(r2), ion[6], ion[7],
                                  screeningFactor, u)]

\* return Ebond + Ecoul
BvseReturn(raised, Ebond, Ecoul) ==
    [raised |-> raised, Ebond |-> Ebond, Ecoul |-> Ecoul,
     value |-> Ebond + Ecoul]

BvseSums(bondTerms, coulTerms) ==
    BvseReturn(\E i \in 1..Len(coulTerms) : coulTerms[i].divides,
               SumSeq(bondTerms),
               IF \E i \in 1..Len(coulTerms) : coulTerms[i].divides THEN 0
               ELSE SumSeq([i \in 1..Len(coulTerms) |-> coulTerms[i].term]))

BvseAt(position, cutoff, mode, screeningFactor, bondRows, coulRows, u) ==
    BvseSums(IF mode < 2
             THEN [i \in 1..Len(bondRows) |->
                      BondTerm(position, bondRows[i], cutoff, u)]
             ELSE <<>>,
             IF mode > 0
             THEN [i \in 1..Len(coulRows) |->
                      CoulTerm(position, coulRows[i], cutoff, screeningFactor,
                               u)]
             ELSE <<>>)

\* voxel_bvse: the locals Ebond and Ecoul, the value returned, and whether
\* a division by zero raised
voxel_bvse(voxelId, voxelNos, V, cutoff, mode, screeningFactor, bondIons, coulIons, bondGarbage, coulGarbage, u) ==
    BvseAt(calc_voxel_cartesian(voxelId, voxelNos, V), cutoff, mode,
           screeningFactor, ReadRows(bondIons, bondGarbage),
           ReadRows(coulIons, coulGarbage), u)

-----------------------------------------------------------------------------
(* Populating the map                                                      *)

\* (h, k, l) comes before (h', k', l') in the voxel loops
RowMajorBefore(v, w) ==
    \/ v[1] < w[1]
    \/ v[1] = w[1] /\ v[2] < w[2]
    \/ v[1] = w[1] /\ v[2] = w[2] /\ v[3] < w[3]

AllVoxels(voxelNos) ==
    (0..(voxelNos[1] - 1)) \X (0..(voxelNos[2] - 1)) \X (0..(voxelNos[3] - 1))

\* a point whose fractional coordinates times the voxel numbers, numerators
\* over den, are whole and inside the grid
OnGrid(scaled, voxelNos, den) ==
    \A i \in 1..3 : /\ scaled[i] % den = 0
                    /\ scaled[i] >= 0
                    /\ scaled[i] < voxelNos[i] * den

GridVoxelsIn(points, voxelNos, inv) ==
    {[i \in 1..3 |-> s[i] \div inv.den] :
        s \in {t \in {[i \in 1..3 |->
                         frac_from_cart(point, inv)[i] * voxelNos[i]] :
                            point \in points} :
                  OnGrid(t, voxelNos, inv.den)}}

\* the voxels that lie exactly on one of the points
GridVoxels(points, voxelNos, V) ==
    GridVoxelsIn(points, voxelNos, inverseVectors(V))

\* the voxel at which the loops stop: the first that raises, <<>> if none
FirstRaising(raising) ==
    IF raising = {} THEN <<>>
    ELSE CHOOSE v \in raising :
            \A w \in raising : w = v \/ RowMajorBefore(v, w)

Written(v, stop) == stop = <<>> \/ RowMajorBefore(v, stop)

\* the grid after loops that stopped at stop: the voxels before it hold the
\* values of the run, the others what they held
WriteMap(grid, values, stop) ==
    [shape |-> grid.shape,
     data |-> [v \in DOMAIN grid.data |->
                  IF Written(v, stop) THEN values[v] ELSE grid.data[v]]]

Coordinates(array, garbage) ==
    {SubSeq(ReadRow(array, i, garbage), 1, 3) : i \in 1..Len(array)}

\* the penalty constants and the modes asked for
Penalties == {0, 50}
Modes == 0..2

BvsmJitVoxel(v, mode, bvIons, penIons, bvGarbage, penGarbage) ==
    voxel_bvsm(v, voxelNumbers, vectors, rCutoff, conductor.ox_state, mode,
               bvIons, penIons, bvGarbage, penGarbage, unit)

\* bvsm_map over the voxels: a division by zero can happen only at a voxel
\* that lies on a penalty site
BvsmJitMap(mode, penalty, bvIons, penIons, bvGarbage, penGarbage) ==
    \E locals \in {[v \in DOMAIN map.data |->
                      BvsmJitVoxel(v, mode, bvIons, penIons, bvGarbage,
                                   penGarbage)]},
       stop \in {FirstRaising(
                   {v \in GridVoxels(IF mode > 0
                                     THEN Coordinates(penIons, penGarbage)
                                     ELSE {},
                                     voxelNumbers, vectors) :
                       BvsmJitVoxel(v, mode, bvIons, penIons, bvGarbage,
                                    penGarbage).raised})} :
        /\ map' = WriteMap(map, [v \in DOMAIN map.data |-> locals[v].value],
                           stop)
        /\ out' = [routine |-> "populate_map_bvsm_jit", mode |-> mode,
                   penalty |-> penalty, built |-> TRUE, stop |-> stop,
                   garbage |-> <<bvGarbage, penGarbage>>, locals |-> locals]

PopulateMapBvsmJit(mode, penalty) ==
    /\ {"bufferedSites", "voxelNumbers"} \subseteq attrs
    /\ \E selected \in {selectedSites(bufferedSites, conductor)} :
          \E bv \in {create_bv_array(selected, bvParams, db, conductor)},
             penIons \in {create_bv_penalty_array(selected, penalty,
                                                  conductor)} :
             /\ bvParams' = bv.bvParams
             /\ IF bv.raised
                THEN /\ map' = map
                     /\ out' = [routine |-> "populate_map_bvsm_jit",
                                mode |-> mode, penalty |-> penalty,
                                built |-> FALSE]
                ELSE \E bvGarbage \in (IF mode < 2
                                       THEN GarbageOf(bv.array, unit)
                                       ELSE {<<>>}),
                        penGarbage \in (IF mode > 0
                                        THEN GarbageOf(penIons, unit)
                                        ELSE {<<>>}) :
                       BvsmJitMap(mode, penalty, bv.array, penIons, bvGarbage,
                                  penGarbage)
    /\ UNCHANGED <<structVars, rCutoff, attrs, bufferVars, bufferedSites,
                   voxelVars>>

BvseJitVoxel(v, mode, bondIons, coulIons, bondGarbage, coulGarbage) ==
    voxel_bvse(v, voxelNumbers, vectors, rCutoff, mode, SCREENING_FACTOR,
               bondIons, coulIons, bondGarbage, coulGarbage, unit)

\* bvse_map over the voxels: a division by zero can happen only at a voxel
\* that lies on a Coulomb site
BvseJitMap(mode, effectiveCharge, bondIons, coulIons, bondGarbage, coulGarbage) ==
    \E locals \in {[v \in DOMAIN map.data |->
                      BvseJitVoxel(v, mode, bondIons, coulIons, bondGarbage,
                                   coulGarbage)]},
       stop \in {FirstRaising(
                   {v \in GridVoxels(IF mode > 0
                                     THEN Coordinates(coulIons, coulGarbage)
                                     ELSE {},
                                     voxelNumbers, vectors) :
                       BvseJitVoxel(v, mode, bondIons, coulIons, bondGarbage,
                                    coulGarbage).raised})} :
        /\ map' = WriteMap(map, [v \in DOMAIN map.data |-> locals[v].value],
                           stop)
        /\ out' = [routine |-> "populate_map_bvse_jit", mode |-> mode,
                   effectiveCharge |-> effectiveCharge, built |-> TRUE,
                   stop |-> stop, garbage |-> <<bondGarbage, coulGarbage>>,
                   locals |-> locals]

PopulateMapBvseJit(mode, effectiveCharge) ==
    /\ {"bufferedSites", "voxelNumbers"} \subseteq attrs
    /\ \E selected \in {selectedSites(bufferedSites, conductor)} :
          \E bond \in {create_bond_site_array(selected, bvParams, db,
                                              conductor)} :
             \E coul \in {create_coul_site_array(selected, effectiveCharge,
                                                 bond.bvParams, db, conductor,
                                                 chargeList, unit)} :
                /\ bvParams' = IF bond.raised THEN bond.bvParams
                               ELSE coul.bvParams
                /\ IF bond.raised \/ coul.raised
                   THEN /\ map' = map
                        /\ out' = [routine |-> "populate_map_bvse_jit",
                                   mode |-> mode,
                                   effectiveCharge |-> effectiveCharge,
                                   built |-> FALSE]
                   ELSE \E bondGarbage \in (IF mode < 2
                                            THEN GarbageOf(bond.array, unit)
                                            ELSE {<<>>}),
                           coulGarbage \in (IF mode > 0
                                            THEN GarbageOf(coul.array, unit)
                                            ELSE {<<>>}) :
                          BvseJitMap(mode, effectiveCharge, bond.array,
                                     coul.array, bondGarbage, coulGarbage)
    /\ UNCHANGED <<structVars, rCutoff, attrs, bufferVars, bufferedSites,
                   voxelVars>>

\* one pass of the atom loop of populate_map_bvsm for a row at squared
\* distance r2: what the row does to the loop ...
AtomEvent(r2, row, record, cond, rC, penalty, only_penalty, u) ==
    IF r2 > rC * rC THEN "skip"
    ELSE IF row.ion.ox_state * cond.ox_state < 0
    THEN IF only_penalty THEN "skip"
         ELSE IF r2 < u * u THEN "collision"
         ELSE IF record.found THEN "bv" ELSE "raise"
    ELSE IF penalty # 0
    THEN IF r2 = 0 \/ rC = 0 THEN "raise" ELSE "penalty"
    ELSE "skip"

\* ... and what it adds to bvSum and to penaltySum
AtomTerms(event, r2, row, record, cond, rC, penalty, fType, u) ==
    [event |-> event, ion |-> row.ion,
     bv |-> IF event = "bv"
            THEN calc_bv(record.r0, ISqrt(r2), record.ib, u) ELSE 0,
     penalty |-> IF event # "penalty" THEN 0
                 ELSE IF fType = "linear"
                 THEN linear_penalty(cond.ox_state, -2, r2, penalty, rC, u)
                 ELSE quadratic_penalty(cond.ox_state, -2, r2, penalty, rC, u)]

AtomSteps(pos, rows, cond, rC, penalty, fType, only_penalty, cache, d, u) ==
    [n \in 1..Len(rows) |->
        AtomTerms(AtomEvent(calc_distance(pos, rows[n].coords, rC), rows[n],
                            ParamOf(cache, d, cond, rows[n].ion), cond, rC,
                            penalty, only_penalty, u),
                  calc_distance(pos, rows[n].coords, rC), rows[n],
                  ParamOf(cache, d, cond, rows[n].ion), cond, rC, penalty,
                  fType, u)]

\* the first row that ends the loop - a collision (bvSum becomes 20) or an
\* exception (a missing parameter record, a division by zero)
FirstEnd(steps) ==
    IF \E n \in 1..Len(steps) : steps[n].event \in {"collision", "raise"}
    THEN CHOOSE n \in 1..Len(steps) :
            /\ steps[n].event \in {"collision", "raise"}
            /\ \A m \in 1..(n - 1) :
                  steps[m].event \notin {"collision", "raise"}
    ELSE Len(steps) + 1

AtomReturn(event, bvSum, penaltySum, looked, cond, only_penalty) ==
    [raised |-> event = "raise", bvs |-> bvSum, penaltySum |-> penaltySum,
     looked |-> looked,
     value |-> IF only_penalty THEN penaltySum
               ELSE Abs(bvSum - Abs(cond.ox_state) * 1000) + penaltySum]

AtomLoop(steps, last, event, cond, only_penalty) ==
    AtomReturn(event,
               IF event = "collision" THEN 20000
               ELSE SumSeq([n \in 1..(last - 1) |-> steps[n].bv]),
               SumSeq([n \in 1..(last - 1) |-> steps[n].penalty]),
               {steps[n].ion : n \in {m \in 1..Len(steps) :
                   m <= last /\ steps[m].event \in {"bv", "raise"}}},
               cond, only_penalty)

\* one voxel of populate_map_bvsm: the atom loop told by row, as far as
\* the first row that ends it
voxel_populate_bvsm(voxelId, voxelNos, V, rows, cond, rC, penalty, fType, only_penalty, cache, d, u) ==
    CHOOSE result \in
        {AtomLoop(steps, FirstEnd(steps),
                  IF FirstEnd(steps) <= Len(steps)
                  THEN steps[FirstEnd(steps)].event ELSE "end",
                  cond, only_penalty) :
            steps \in {AtomSteps(calc_voxel_cartesian(voxelId, voxelNos, V),
                                 rows, cond, rC, penalty, fType, only_penalty,
                                 cache, d, u)}} : TRUE

FTypes == {"linear", "quadratic"}

Uncached(row) ==
    /\ row.ox_state * conductor.ox_state < 0
    /\ DictKey(conductor, row.ion) \notin DOMAIN bvParams
    /\ DictKey(row.ion, conductor) \notin DOMAIN bvParams

BvsmVoxel(v, rows, penalty, fType, only_penalty) ==
    voxel_populate_bvsm(v, voxelNumbers, vectors, rows, conductor, rCutoff,
                        penalty, fType, only_penalty, bvParams, db, unit)

\* a voxel raises or looks a record up; a lookup happens only between 1
\* Angstrom and rCutoff, and a division by zero only at a voxel on a site
PopulateMapBvsm(penalty, fType, only_penalty) ==
    /\ {"bufferedSites", "voxelNumbers"} \subseteq attrs
    /\ \E selectedAtoms \in {selectedSites(bufferedSites, conductor)} :
       \E lookups \in {/\ ~only_penalty
                       /\ rCutoff >= unit
                       /\ \E n \in 1..Len(selectedAtoms) :
                             Uncached(selectedAtoms[n])} :
       \E scanned \in {IF lookups THEN AllVoxels(voxelNumbers)
                       ELSE GridVoxels({selectedAtoms[n].coords :
                                           n \in 1..Len(selectedAtoms)},
                                       voxelNumbers, vectors)} :
       \E stop \in {FirstRaising({v \in scanned :
                       BvsmVoxel(v, selectedAtoms, penalty, fType,
                                 only_penalty).raised})} :
       \E locals \in {[v \in DOMAIN map.data |->
                         BvsmVoxel(v, selectedAtoms, penalty, fType,
                                   only_penalty)]},
          looked \in {IF lookups
                      THEN UNION {BvsmVoxel(v, selectedAtoms, penalty, fType,
                                            only_penalty).looked :
                                     v \in {w \in scanned :
                                               Written(w, stop) \/ w = stop}}
                      ELSE {}} :
          /\ bvParams' = CacheWith(bvParams, db,
                                   {DictKey(conductor, ion) : ion \in looked})
          /\ map' = WriteMap(map,
                             [v \in DOMAIN map.data |-> locals[v].value], stop)
          /\ out' = [routine |-> "populate_map_bvsm", penalty |-> penalty,
                     fType |-> fType, only_penalty |-> only_penalty,
                     built |-> TRUE, stop |-> stop, locals |-> locals]
    /\ UNCHANGED <<structVars, rCutoff, attrs, bufferVars, bufferedSites,
                   voxelVars>>

\* a lithium conductor next to a lone-pair cation and an anion, in the
\* cubic cell of 9.6 Angstrom
LeadLithiumInput ==
    [unit |-> 100, conductor |-> Li,
     params |-> <<960, 960, 960, 90, 90, 90>>,
     vectors |-> Diag(960, 960, 960),
     sites |-> << SiteRow("Li1", "Li1-0", Li, FALSE,
                          AtQuarters(<<2, 2, 2>>, Diag(960, 960, 960))),
                  SiteRow("Pb1", "Pb1-0", Pb, TRUE,
                          AtQuarters(<<0, 0, 0>>, Diag(960, 960, 960))),
                  SiteRow("F1", "F1-0", F, FALSE,
                          AtQuarters(<<1, 0, 0>>, Diag(960, 960, 960))) >>]

\* the structures of the kernel specification: the cells with a = c = 9.6
\* Angstrom, whose voxel positions are whole numbers of length units, and
\* the databases with cutoff 6 Angstrom or without records
KernelInputs ==
    {inp \in SmallInputs({0}) : inp.params[1] = 960 /\ inp.params[3] = 960}

InitKernel == \E inp \in KernelInputs, kind \in DbKinds \ {"ten"} :
                  Constructed(inp, kind)

NextKernel ==
    \/ \E res \in {unit} : InitaliseMap(res)
    \/ \E distance \in {unit} : CreateLonePairs(distance)
    \/ \E penalty \in Penalties, fType \in FTypes, only_penalty \in BOOLEAN :
          PopulateMapBvsm(penalty, fType, only_penalty)
    \/ \E mode \in Modes, penalty \in Penalties \ {0} :
          PopulateMapBvsmJit(mode, penalty)
    \/ \E mode \in Modes, effectiveCharge \in BOOLEAN :
          PopulateMapBvseJit(mode, effectiveCharge)
    \/ ResetMap

KernelSpec == InitKernel /\ [][NextKernel]_vars

\* the same operations on the lithium lead fluoride, whose lone-pair dummies
\* attract the conductor
InitLeadLithium == \E kind \in DbKinds \ {"ten"} :
                       Constructed(LeadLithiumInput, kind)

LeadLithiumSpec == InitLeadLithium /\ [][NextKernel]_vars

\* self.calc_distance(point1, point2), whose cutoff is self.rCutoff
CalcDistance(point1, point2) ==
    /\ out' = [routine |-> "calc_distance", point1 |-> point1,
               point2 |-> point2, cutoff |-> rCutoff,
               r2 |-> calc_distance(point1, point2, rCutoff)]
    /\ UNCHANGED <<structVars, bvParams, rCutoff, attrs, bufferVars,
                   bufferedSites, voxelVars, map>>

\* self.calc_vector_distance(vector), whose cutoff is self.rCutoff
CalcVectorDistance(vector) ==
    /\ out' = [routine |-> "calc_vector_distance", vector |-> vector,
               cutoff |-> rCutoff,
               r2 |-> calc_vector_distance(vector, rCutoff)]
    /\ UNCHANGED <<structVars, bvParams, rCutoff, attrs, bufferVars,
                   bufferedSites, voxelVars, map>>

\* the points of the distance tests and points around them, in Angstrom
DistancePoints ==
    {<<x, y, z>> : x \in {-10, -3, -1, 1, 10}, y \in {-10, 0, 1, 11},
                   z \in {-10, -2, 1}}

\* distances from the two first points of the tests, between two points
\* and of the vector from the second to the first as the tests form it, in
\* the structures of the lithium lead fluoride, whose cutoff is 6 Angstrom
\* or 0
DistanceSpec ==
    InitLeadLithium
        /\ [][\E point1 \in {<<0, 0, 0>>, <<3, 4, 1>>}, point2 \in DistancePoints :
                 \/ CalcDistance([j \in 1..3 |-> point1[j] * unit],
                                 [j \in 1..3 |-> point2[j] * unit])
                 \/ CalcVectorDistance(
                        [j \in 1..3 |-> (point1[j] - point2[j]) * unit])]_vars

\* find_effective_charges called on a constructed structure
FindEffectiveCharges ==
    /\ out' = [routine |-> "find_effective_charges",
               charges |-> find_effective_charges(sites)]
    /\ UNCHANGED <<structVars, bvParams, rCutoff, attrs, bufferVars,
                   bufferedSites, voxelVars, map>>

\* the sites a composition is drawn from, in the cubic cell of 9.6 Angstrom
SitePool ==
    LET V == Diag(960, 960, 960)
    IN  << SiteRow("Li1", "Li1-0", Li, FALSE, AtQuarters(<<0, 0, 0>>, V)),
           SiteRow("Li2", "Li2-0", Li, FALSE, AtQuarters(<<2, 0, 0>>, V)),
           SiteRow("Pb1", "Pb1-0", Pb, TRUE, AtQuarters(<<0, 2, 0>>, V)),
           SiteRow("Pb2", "Pb2-0", Pb, TRUE, AtQuarters(<<0, 0, 2>>, V)),
           SiteRow("P1", "P1-0", P, FALSE, AtQuarters(<<2, 2, 2>>, V)),
           SiteRow("F1", "F1-0", F, FALSE, AtQuarters(<<1, 1, 1>>, V)),
           SiteRow("F2", "F2-0", F, FALSE, AtQuarters(<<3, 1, 1>>, V)),
           SiteRow("F3", "F3-0", F, FALSE, AtQuarters(<<1, 3, 1>>, V)),
           SiteRow("O1", "O1-0", O, FALSE, AtQuarters(<<1, 1, 3>>, V)),
           SiteRow("O2", "O2-0", O, FALSE, AtQuarters(<<3, 3, 3>>, V)) >>

\* the structures made of some sites of the pool, conducted by fluoride
CompositionInputs ==
    { [unit |-> 100, conductor |-> F,
       params |-> <<960, 960, 960, 90, 90, 90>>,
       vectors |-> Diag(960, 960, 960),
       sites |-> SelectSeq(SitePool, LAMBDA row : row.label \in labels)]
        : labels \in SUBSET {SitePool[n].label : n \in 1..Len(SitePool)} \ {{}} }

InitCharge == \E inp \in CompositionInputs : Constructed(inp, "six")

ChargeSpec == InitCharge /\ [][FindEffectiveCharges]_vars

-----------------------------------------------------------------------------
(* Properties of the buffer builder and of the voxel grid                  *)

\* how far, in cells, the translations of a core site are looked at
CoverRange == 3

Present(p1, hkl) ==
    \E n \in 1..Len(bufferedSites) :
        bufferedSites[n].Index = BufferIndex("", p1, hkl)

InRequiredVolume(coords) ==
    inside_space(reqFracStart, reqFracEnd,
                 frac_from_cart(coords, inverseVectors(vectors)))

\* C1: once the buffered set is built, every integer translation of a core
\* site that lies inside the required volume is an entry of the buffered
\* set.
C1_BufferCoverage ==
    "bufferedSites" \in attrs =>
        \A n \in 1..Len(sites) :
            \A h \in -CoverRange..CoverRange, k \in -CoverRange..CoverRange,
               l \in -CoverRange..CoverRange :
                InRequiredVolume(translate_coord(sites[n].coords, <<h, k, l>>,
                                                 vectors))
                    => Present(sites[n].Index, <<h, k, l>>)

C3_CoreImagePresent ==
    "bufferedSites" \in attrs =>
        \A n \in 1..Len(sites) : Present(sites[n].Index, <<0, 0, 0>>)

IsPbF2 == unit = 10000 /\ params = PbF2Input.params /\ vectors = PbF2Input.vectors

\* the site table with every site moved by the cell vector a
ShiftedByA == [n \in 1..Len(sites) |->
                  [sites[n] EXCEPT !.coords = VecAdd(@, vectors[1])]]

NoDummies == \A n \in 1..Len(bufferedSites) : bufferedSites[n].Index.prefix = ""

\* the value voxel_bvsm gives a voxel for a buffered table, in a run of the
\* given mode and penalty that meets the given garbage
BvsmJitValue(buffered, v, mode, penalty, bvGarbage, penGarbage) ==
    LET selected == selectedSites(buffered, conductor)
    IN  voxel_bvsm(v, voxelNumbers, vectors, rCutoff, conductor.ox_state,
                   mode,
                   create_bv_array(selected, bvParams, db, conductor).array,
                   create_bv_penalty_array(selected, penalty, conductor),
                   bvGarbage, penGarbage, unit).value

\* the garbage a run of populate_map_bvsm_jit on a buffered table can meet
BvsmJitGarbage(buffered, penalty) ==
    LET selected == selectedSites(buffered, conductor)
    IN  GarbageOf(create_bv_array(selected, bvParams, db, conductor).array,
                  unit)
        \X GarbageOf(create_bv_penalty_array(selected, penalty, conductor),
                     unit)

\* the same for voxel_bvse
BvseJitValue(buffered, v, mode, effectiveCharge, bondGarbage, coulGarbage) ==
    LET selected == selectedSites(buffered, conductor)
    IN  voxel_bvse(v, voxelNumbers, vectors, rCutoff, mode, SCREENING_FACTOR,
                   create_bond_site_array(selected, bvParams, db,
                                          conductor).array,
                   create_coul_site_array(selected, effectiveCharge, bvParams,
                                          db, conductor, chargeList,
                                          unit).array,
                   bondGarbage, coulGarbage, unit).value

BvseJitGarbage(buffered, effectiveCharge) ==
    LET selected == selectedSites(buffered, conductor)
    IN  GarbageOf(create_bond_site_array(selected, bvParams, db,
                                         conductor).array, unit)
        \X GarbageOf(create_coul_site_array(selected, effectiveCharge,
                         bvParams, db, conductor, chargeList, unit).array,
                     unit)

\* C4: after initalise_map and populate_map_bvsm_jit, every voxel written
\* holds the value that the same run gives it for the structure whose sites
\* are all moved by the cell vector a, whatever that run reads behind an
\* empty array.
C4_TranslationCovariance ==
    (out.routine = "populate_map_bvsm_jit" /\ out.built /\ NoDummies) =>
        LET moved == find_buffer_sites(ShiftedByA, vectors, bufferArea,
                                       reqFracStart, reqFracEnd)
        IN  \E g \in BvsmJitGarbage(moved, out.penalty) :
                \A v \in DOMAIN map.data :
                    Written(v, out.stop) =>
                        map.data[v] = BvsmJitValue(moved, v, out.mode,
                                                   out.penalty, g[1], g[2])

\* an attractive buffered image lies less than 1 Angstrom from the voxel
Collides(v) ==
    LET pos == calc_voxel_cartesian(v, voxelNumbers, vectors)
        rows == Attractive(selectedSites(bufferedSites, conductor), conductor)
    IN  \E n \in 1..Len(rows) :
            Dot(VecSub(rows[n].coords, pos), VecSub(rows[n].coords, pos))
                < unit * unit

\* C5: in a run of populate_map_bvsm or of populate_map_bvsm_jit that
\* accumulates the bond-valence sum, every voxel written that has an
\* attractive image closer than 1 Angstrom has the sum 20.
C5_CollisionGuard ==
    LET accumulates ==
            IF out.routine = "populate_map_bvsm" THEN ~out.only_penalty
            ELSE IF out.routine = "populate_map_bvsm_jit"
            THEN out.built /\ out.mode < 2
            ELSE FALSE
    IN  accumulates =>
            \A v \in DOMAIN map.data :
                (Written(v, out.stop) /\ Collides(v))
                    => out.locals[v].bvs = 20000

\* C6: the value a completed mode 2 run of populate_map_bvsm_jit wrote to a
\* voxel is the value of a mode 1 run minus the value of a mode 0 run on the
\* same structure, grid, cutoff and penalty constant.
C6_BvsmModeLaw ==
    (out.routine = "populate_map_bvsm_jit" /\ out.built /\ out.mode = 2
        /\ out.stop = <<>>) =>
        \A g1 \in BvsmJitGarbage(bufferedSites, out.penalty),
           g0 \in BvsmJitGarbage(bufferedSites, out.penalty) :
            \A v \in DOMAIN map.data :
                map.data[v]
                    = BvsmJitValue(bufferedSites, v, 1, out.penalty,
                                   g1[1], g1[2])
                      - BvsmJitValue(bufferedSites, v, 0, out.penalty,
                                     g0[1], g0[2])

\* C7: the value a completed mode 1 run of populate_map_bvse_jit wrote to a
\* voxel is the value of a mode 0 run plus the value of a mode 2 run on the
\* same structure, grid, cutoff and charge setting.
C7_BvseModeLaw ==
    (out.routine = "populate_map_bvse_jit" /\ out.built /\ out.mode = 1
        /\ out.stop = <<>>) =>
        \A g0 \in BvseJitGarbage(bufferedSites, out.effectiveCharge),
           g2 \in BvseJitGarbage(bufferedSites, out.effectiveCharge) :
            \A v \in DOMAIN map.data :
                map.data[v]
                    = BvseJitValue(bufferedSites, v, 0, out.effectiveCharge,
                                   g0[1], g0[2])
                      + BvseJitValue(bufferedSites, v, 2, out.effectiveCharge,
                                     g2[1], g2[2])

\* C8: for the cubic 5.9306 cell and a requested resolution of 0.5,
\* setup_voxels leaves the voxel counts (12,12,12) and a grid of that shape.
C8_VoxelScenario ==
    (IsPbF2 /\ "voxelNumbers" \in attrs /\ resolution = 5000) =>
        /\ voxelNumbers = <<12, 12, 12>>
        /\ map.shape = <<12, 12, 12>>

\* C9: every voxel count is a positive multiple of 12, is at least
\* ceil(length / resolution), and the spacing length / N does not exceed
\* the requested resolution.
C9_VoxelCount ==
    "voxelNumbers" \in attrs =>
        \A i \in 1..3 :
            /\ voxelNumbers[i] > 0
            /\ voxelNumbers[i] % 12 = 0
            /\ voxelNumbers[i] >= Ceil(params[i], resolution)
            /\ params[i] <= voxelNumbers[i] * resolution

\* the count of an axis whose minimum count is itself a multiple of 12
C9_Witness ==
    /\ "voxelNumbers" \in attrs
    /\ \E i \in 1..3 : /\ Ceil(params[i], resolution) % 12 = 0
                       /\ voxelNumbers[i] = Ceil(params[i], resolution) + 12

-----------------------------------------------------------------------------
(* Properties of the parameter dictionary and of the cache                 *)

\* the records of the dictionary that carry a cutoff radius
CutoffRecords == {k \in DOMAIN bvParams : bvParams[k].found /\ bvParams[k].has_cutoff}

\* C11: right after construction rCutoff is the largest r_cutoff of the
\* records stored in bvParams, and 6 Angstrom when no record with an
\* r_cutoff was found.
C11_CutoffDefault ==
    attrs = {} =>
        /\ CutoffRecords # {} =>
              /\ \E k \in CutoffRecords : rCutoff = bvParams[k].r_cutoff
              /\ \A k \in CutoffRecords : rCutoff >= bvParams[k].r_cutoff
        /\ CutoffRecords = {} => rCutoff = 6 * unit

\* C12: right after construction bvParams holds an entry for the pair
\* (conductor, ion) only for ions whose oxidation state has the opposite
\* sign to the conductor's: no ion of the same sign was queried or stored.
C12_AttractiveOnly ==
    attrs = {} =>
        \A k \in DOMAIN bvParams :
            k[1] = conductor => k[2].ox_state * conductor.ox_state < 0

\* the buffered rows of an attractive ion for which neither the cache nor
\* the database has a parameter record
MissingAttractive ==
    {n \in 1..Len(bufferedSites) :
        /\ bufferedSites[n].ion # conductor
        /\ bufferedSites[n].ox_state * conductor.ox_state < 0
        /\ ~ParamOf(bvParams, db, conductor, bufferedSites[n].ion).found}

\* C13: a BVSM population over a structure with an attractive pair whose
\* parameter record is missing builds its arrays and runs through every
\* voxel without raising: the pair is skipped.
C13_MissingPairSkipped ==
    (out.routine = "populate_map_bvsm_jit" /\ MissingAttractive # {})
        => (out.built /\ out.stop = <<>>)

-----------------------------------------------------------------------------
(* Properties of the lone-pair synthesizer                                 *)

\* the vector bond-valence sum find_site_bvs gives for the core site p1
SiteBvs(p1) ==
    find_site_bvs(sites[CHOOSE n \in 1..Len(sites) : sites[n].Index = p1],
                  bufferedSites, bvParams, db, rCutoff, unit)

\* the displacement is distance times the unit direction of the sum, as
\* far as whole length units can tell
AlongUnitDirection(disp, bvs, distance) ==
    /\ Dot(disp, disp) >= (distance - 2) * (distance - 2)
    /\ Dot(disp, disp) <= (distance + 2) * (distance + 2)
    /\ ~bvs.scalar
    /\ \A i \in 1..3 :
          Abs(disp[i] * ISqrt(Dot(bvs.vbvSum, bvs.vbvSum))
                 - distance * bvs.vbvSum[i])
             <= 2 * ISqrt(Dot(bvs.vbvSum, bvs.vbvSum))

\* what the claim asks of the table after a call with the given distance,
\* for the image host of the table before it
DummyFor(host, after, distance) ==
    IF host.lp /\ lone_pair_active(SiteBvs(host.Index.p1))
    THEN /\ Cardinality({m \in 1..Len(after) :
                after[m].Index
                   = BufferIndex("lp", host.Index.p1, host.Index.hkl)}) = 1
         /\ \A m \in 1..Len(after) :
               after[m].Index
                  = BufferIndex("lp", host.Index.p1, host.Index.hkl) =>
                     /\ after[m].ion = Ion("LP", -2)
                     /\ after[m].ox_state = -2
                     /\ after[m].label = "lp" \o host.label
                     /\ AlongUnitDirection(VecSub(after[m].coords, host.coords),
                                           SiteBvs(host.Index.p1), distance)
    ELSE \A m \in 1..Len(after) :
            after[m].Index # BufferIndex("lp", host.Index.p1, host.Index.hkl)

\* C15: a call create_lone_pairs(d) in which no bond-valence sum raises
\* leaves exactly one dummy (LP, -2, label lp<label>) at image position +
\* d * unit direction of the vector bond-valence sum for every buffered
\* image of a flagged core site whose sum is longer than 0.5, and none for
\* the images of the other sites.
C15_LonePairSynthesis ==
    [][\A distance \in LonePairDistances(unit) :
          (/\ CreateLonePairs(distance)
           /\ \A n \in 1..Len(sites) :
                 sites[n].lp => ~SiteBvs(sites[n].Index).raised)
          => \A n \in 1..Len(bufferedSites) :
                bufferedSites[n].Index.prefix = ""
                   => DummyFor(bufferedSites[n], bufferedSites', distance)]_vars

\* C16: no call of initalise_map, create_lone_pairs, populate_map_* or
\* reset_map changes the core site table, the cell, the conductor, the
\* effective charges or rCutoff, no LP entry is ever in the core site
\* table, and the geometry of the buffer, once set, stays: what changes is
\* the buffered set, the parameter cache and the grid.
C16_Frame ==
    [][/\ UNCHANGED <<sites, vectors, params, conductor, chargeList, rCutoff>>
       /\ \A n \in 1..Len(sites') : sites'[n].ion.element # "LP"
       /\ "bufferArea" \in attrs => UNCHANGED bufferVars]_vars

\* dummies are in the buffered set and a populate run over them has
\* written the grid, and the core site table holds no LP entry
C16_Witness ==
    /\ \E n \in 1..Len(bufferedSites) : bufferedSites[n].ion.element = "LP"
    /\ out.routine = "populate_map_bvse_jit" /\ out.built
    /\ \E v \in DOMAIN map.data : map.data[v] # 0
    /\ \A n \in 1..Len(sites) : sites[n].ion.element # "LP"

-----------------------------------------------------------------------------
(* Properties of the populate runs                                         *)

\* C17: a run of bvsm_map or bvse_map writes every voxel of the grid, each
\* with the value the kernel gives for its index and the inputs of the run,
\* whatever the grid held before: no voxel is left with its old contents,
\* so that the order of evaluation does not show in the grid.
C17_EveryVoxelWritten ==
    (out.routine \in {"populate_map_bvsm_jit", "populate_map_bvse_jit"}
        /\ out.built)
    => /\ out.stop = <<>>
       /\ \A v \in DOMAIN map.data : map.data[v] = out.locals[v].value

\* C18: a run of populate_map_bvsm, whose voxel loops start with its first
\* statement after the selection of the atoms, leaves the parameter cache
\* as it found it: no record is looked up in the database while the voxels
\* are evaluated.
C18_NoLookupInLoops ==
    [][out'.routine = "populate_map_bvsm" => bvParams' = bvParams]_vars

------------------------------------------------------------------------------
(* Properties of the effective charges                                     *)

\* the sum over the sites of the table of their oxidation states
OxSum(rows) == SumSeq([n \in 1..Len(rows) |-> rows[n].ox_state])

\* the sum over the ions of the dictionary of their effective charges
SumOverIons(rows, charges) ==
    SumSeq([n \in 1..Len(rows) |->
               IF rows[n].ion \in DOMAIN charges
                  /\ \A m \in 1..(n - 1) : rows[m].ion # rows[n].ion
               THEN charges[rows[n].ion] ELSE 0])

\* the sum over the sites of the effective charges of their ions: every
\* ion counted with its multiplicity N
SumOverSites(rows, charges) ==
    SumSeq([n \in 1..Len(rows) |->
               IF rows[n].ion \in DOMAIN charges
               THEN charges[rows[n].ion] ELSE 0])

\* what the rounding of the thousandths may leave of a sum over the rows
Rounding(rows) == 3 * Len(rows)

\* C19, as stated: in a charge-balanced structure the effective charges
\* that find_effective_charges returns, one for every ion, sum to 0.
C19_SumOverIons ==
    (out.routine = "find_effective_charges" /\ OxSum(sites) = 0)
        => Abs(SumOverIons(sites, out.charges)) <= Rounding(sites)

\* C19, amended: in a charge-balanced structure the effective charges that
\* find_effective_charges returns, each multiplied by the number N of sites
\* of its ion, sum to 0.
C19_SumOverSites ==
    (out.routine = "find_effective_charges" /\ OxSum(sites) = 0)
        => Abs(SumOverSites(sites, out.charges)) <= Rounding(sites)

\* find_effective_charges has run on a charge-balanced structure with one
\* lead and two fluoride sites, and returned charges that are not 0
C19_Witness ==
    /\ out.routine = "find_effective_charges"
    /\ OxSum(sites) = 0
    /\ Len(sites) = 3
    /\ {sites[n].ion : n \in 1..Len(sites)} = {Pb, F}
    /\ out.charges[Pb] > 0
    /\ out.charges[F] < 0

------------------------------------------------------------------------------
(* Properties of the distance                                              *)

\* the distance of the two points along axis j
AxisDelta(call, j) == Abs(call.point2[j] - call.point1[j])

\* the square of the Euclidean distance of the two points
Euclidean2(call) ==
    AxisDelta(call, 1) * AxisDelta(call, 1)
        + AxisDelta(call, 2) * AxisDelta(call, 2)
        + AxisDelta(call, 3) * AxisDelta(call, 3)

\* the axes, x = 1, y = 2, z = 3, along which the points are further apart
\* than the cutoff
Beyond(call) == {j \in 1..3 : AxisDelta(call, j) > call.cutoff}

\* C20: calc_distance returns the Euclidean distance when the points are
\* within the cutoff along every axis, and otherwise their distance along
\* the first axis, in the order x, y, z, along which they are further apart
\* than the cutoff; from (3,4,1) to (-10,0,-2) with cutoff 6 that is 13; and
\* what it returns is never more than the Euclidean distance. Distances are
\* compared by their squares.
C20_CalcDistance ==
    out.routine = "calc_distance" =>
        /\ Beyond(out) = {} => out.r2 = Euclidean2(out)
        /\ Beyond(out) # {} =>
              \E j \in Beyond(out) :
                  /\ \A i \in Beyond(out) : j <= i
                  /\ out.r2 = AxisDelta(out, j) * AxisDelta(out, j)
        /\ (/\ out.point1 = <<3 * unit, 4 * unit, unit>>
            /\ out.point2 = <<-10 * unit, 0, -2 * unit>>
            /\ out.cutoff = 6 * unit)
              => out.r2 = (13 * unit) * (13 * unit)
        /\ out.r2 <= Euclidean2(out)

\* the call of the tests beyond the cutoff has returned 13, and so has a
\* call whose points are further apart along y than along x, both beyond
\* the cutoff, returned the distance along x
C20_Witness ==
    /\ out.routine = "calc_distance"
    /\ out.cutoff = 6 * unit
    /\ out.point1 = <<3 * unit, 4 * unit, unit>>
    /\ out.point2 \in {<<-10 * unit, 0, -2 * unit>>,
                       <<10 * unit, -10 * unit, unit>>}
    /\ Beyond(out) # {}
    /\ out.r2 = AxisDelta(out, 1) * AxisDelta(out, 1)

\* C21: calc_vector_distance returns the Euclidean length of the vector when
\* no component is, in absolute value, more than rCutoff, and otherwise
\* the absolute value of a component that is more than rCutoff. Distances
\* are compared by their squares.
C21_CalcVectorDistance ==
    out.routine = "calc_vector_distance" =>
        IF \A j \in 1..3 : Abs(out.vector[j]) <= out.cutoff
        THEN out.r2 = Dot(out.vector, out.vector)
        ELSE \E j \in 1..3 : /\ Abs(out.vector[j]) > out.cutoff
                             /\ out.r2 = out.vector[j] * out.vector[j]

------------------------------------------------------------------------------
(* Properties of the cutoff in the kernels                                 *)

\* the square of the Euclidean distance of a voxel position and an array row
True2(position, ion) ==
    Dot(VecSub(SubSeq(ion, 1, 3), position), VecSub(SubSeq(ion, 1, 3), position))

\* the rows of an array within the cutoff of the position
Within(position, rows) ==
    SelectSeq(rows, LAMBDA ion : True2(position, ion) <= rCutoff * rCutoff)

\* the arrays that a jit run reads, built again from the buffered table,
\* and what the run read where an array had no columns
BvRowsRead ==
    ReadRows(create_bv_array(selectedSites(bufferedSites, conductor),
                             bvParams, db, conductor).array, out.garbage[1])

PenRowsRead ==
    ReadRows(create_bv_penalty_array(selectedSites(bufferedSites, conductor),
                                     out.penalty, conductor), out.garbage[2])

BondRowsRead ==
    ReadRows(create_bond_site_array(selectedSites(bufferedSites, conductor),
                                    bvParams, db, conductor).array,
             out.garbage[1])

CoulRowsRead ==
    ReadRows(create_coul_site_array(selectedSites(bufferedSites, conductor),
                                    out.effectiveCharge, bvParams, db,
                                    conductor, chargeList, unit).array,
             out.garbage[2])

\* the sums of a voxel over exactly the rows within the cutoff
ExactBvs(position, rows) ==
    SumSeq([i \in 1..Len(Within(position, rows)) |->
               calc_bv(Within(position, rows)[i][5],
                       ISqrt(True2(position, Within(position, rows)[i])),
                       Within(position, rows)[i][4], unit)])

ExactPenalty(position, rows) ==
    SumSeq([i \in 1..Len(Within(position, rows)) |->
               calc_penalty(True2(position, Within(position, rows)[i]),
                            conductor.ox_state, Within(position, rows)[i][4],
                            Within(position, rows)[i][5], rCutoff, unit)])

ExactEbond(position, rows) ==
    SumSeq([i \in 1..Len(Within(position, rows)) |->
               calc_Ebond(Within(position, rows)[i][4],
                          Within(position, rows)[i][5],
                          ISqrt(True2(position, Within(position, rows)[i])),
                          Within(position, rows)[i][6], unit)])

ExactEcoul(position, rows) ==
    SumSeq([i \in 1..Len(Within(position, rows)) |->
               calc_Ecoul(Within(position, rows)[i][4],
                          Within(position, rows)[i][5],
                          ISqrt(True2(position, Within(position, rows)[i])),
                          Within(position, rows)[i][6],
                          Within(position, rows)[i][7], SCREENING_FACTOR,
                          unit)])

\* C22: in both kernels the rows that contribute to the sums of a voxel are
\* exactly the rows whose Euclidean distance from the voxel is at most the
\* cutoff: at every voxel that did not raise, the sums of voxel_bvsm and of
\* voxel_bvse are the sums of the terms of these rows.
C22_ExactCutoff ==
    /\ (out.routine = "populate_map_bvsm_jit" /\ out.built) =>
          \A v \in DOMAIN out.locals :
              \E position \in {calc_voxel_cartesian(v, voxelNumbers, vectors)} :
                  ~out.locals[v].raised =>
                      /\ out.mode < 2 =>
                            out.locals[v].bvs = ExactBvs(position, BvRowsRead)
                      /\ out.mode > 0 =>
                            out.locals[v].penaltySum
                                = ExactPenalty(position, PenRowsRead)
    /\ (out.routine = "populate_map_bvse_jit" /\ out.built) =>
          \A v \in DOMAIN out.locals :
              \E position \in {calc_voxel_cartesian(v, voxelNumbers, vectors)} :
                  ~out.locals[v].raised =>
                      /\ out.mode < 2 =>
                            out.locals[v].Ebond
                                = ExactEbond(position, BondRowsRead)
                      /\ out.mode > 0 =>
                            out.locals[v].Ecoul
                                = ExactEcoul(position, CoulRowsRead)

\* a run of populate_map_bvse_jit has read, at the origin, a Coulomb row
\* within the cutoff, a row beyond the cutoff along the first axis but not
\* beyond twice the cutoff, and a row beyond twice the cutoff along an axis
C22_Witness ==
    /\ out.routine = "populate_map_bvse_jit"
    /\ out.built
    /\ out.mode > 0
    /\ rCutoff > 0
    /\ ~out.locals[<<0, 0, 0>>].raised
    /\ out.locals[<<0, 0, 0>>].Ecoul # 0
    /\ \E i \in 1..Len(CoulRowsRead) :
          /\ Abs(CoulRowsRead[i][1]) > rCutoff
          /\ \A j \in 1..3 : Abs(CoulRowsRead[i][j]) <= 2 * rCutoff
    /\ \E i \in 1..Len(CoulRowsRead) :
          \E j \in 1..3 : Abs(CoulRowsRead[i][j]) > 2 * rCutoff

------------------------------------------------------------------------------
(* Properties of the penalty                                               *)

\* C23: the penalty terms that a run of populate_map_bvsm or of
\* populate_map_bvsm_jit adds at a voxel, each for a same-sign image within
\* the cutoff, are never negative, so neither is their sum penaltySum, for
\* a conductor of either sign. A jit run whose penalty array has no rows
\* reads no image and is left out.
C23_PenaltyNotNegative ==
    (/\ out.routine \in {"populate_map_bvsm", "populate_map_bvsm_jit"}
     /\ "locals" \in DOMAIN out
     /\ "garbage" \in DOMAIN out => out.garbage[2] = <<>>)
        => \A v \in DOMAIN out.locals : out.locals[v].penaltySum >= 0

------------------------------------------------------------------------------
(* Properties of the lone-pair dummies in the site arrays                  *)

\* the rows of the buffered table that _create_bv_array and
\* _create_bond_site_array select
AttractiveRows == Attractive(selectedSites(bufferedSites, conductor), conductor)

\* C24: a run of populate_map_bvsm_jit or of populate_map_bvse_jit selects
\* no lone-pair dummy for its attractive array, and looks no record up for
\* a pair with the ion LP: the cache gains no key with that ion.
C24_DummiesRepulsive ==
    [][out'.routine \in {"populate_map_bvsm_jit", "populate_map_bvse_jit"}
          => /\ \A n \in 1..Len(AttractiveRows) : NotDummy(AttractiveRows[n])
             /\ \A k \in DOMAIN bvParams' \ DOMAIN bvParams :
                   k[1].element # "LP" /\ k[2].element # "LP"]_vars

------------------------------------------------------------------------------
(* Properties of the rebuilt buffer                                        *)

\* the table of a first call of initalise_map: the images of the core sites
\* inside the volume that reaches rCutoff beyond the cell
FirstBuild ==
    find_buffer_sites(sites, vectors, buffer_area(params, rCutoff),
                      frac_from_cart(<<-rCutoff, -rCutoff, -rCutoff>>,
                                     inverseVectors(vectors)),
                      frac_from_cart(VecAdd(SumVectors(vectors),
                                            <<rCutoff, rCutoff, rCutoff>>),
                                     inverseVectors(vectors)))

\* C25: whatever came before it, a call of initalise_map leaves the
\* buffered table that a first call builds from the core sites, the cell
\* vectors and rCutoff, without a lone-pair dummy.
C25_RebuiltFromScratch ==
    [][(\E res \in {unit} : InitaliseMap(res))
          => /\ bufferedSites' = FirstBuild
             /\ \A n \in 1..Len(bufferedSites') :
                   bufferedSites'[n].ion.element # "LP"]_vars

\* initalise_map has run after two calls of create_lone_pairs: the cache
\* holds the answer for a dummy and its host, which only the second call
\* asks for, and the table, which has lone-pair hosts, holds the first build
C25_Witness ==
    /\ "bufferedSites" \in attrs
    /\ \E k \in DOMAIN bvParams : k[1].element = "LP"
    /\ \E n \in 1..Len(bufferedSites) : bufferedSites[n].lp
    /\ \A n \in 1..Len(bufferedSites) : bufferedSites[n].ion.element # "LP"
    /\ bufferedSites = FirstBuild

------------------------------------------------------------------------------
(* Invariant of the parameter cache                                        *)

\* no two different ions have entries under both orders of their key
OneOrder(cache) ==
    \A k \in DOMAIN cache : k[1] # k[2] => <<k[2], k[1]>> \notin DOMAIN cache

\* C26: after construction and after every call of get_bv_param or
\* conductor_bv_param the cache holds, for two different ions, at most one
\* of the keys x.y and y.x, and a call leaves every entry under its key as
\* it was.
C26_CacheInvariant ==
    /\ OneOrder(bvParams)
    /\ [][/\ OneOrder(bvParams')
          /\ \A k \in DOMAIN bvParams :
                k \in DOMAIN bvParams' /\ bvParams'[k] = bvParams[k]]_vars

\* a call has stored the answer for two different ions of which the first
\* is not the conductor, next to the entry of an earlier such call
C26_Witness ==
    /\ out.routine = "get_bv_param"
    /\ out.ion1 # conductor
    /\ out.ion1 # out.ion2
    /\ <<out.ion1, out.ion2>> \in DOMAIN bvParams
    /\ <<out.ion2, out.ion1>> \notin DOMAIN bvParams
    /\ \E k \in DOMAIN bvParams :
          k[1] # conductor /\ k # <<out.ion1, out.ion2>>

====
